---- MODULE Spec2Model ----
(***************************************************************************)
(* Model of the LSP transport and client protocol engine of gotools:       *)
(*   src/api/lsp.py       RPCMessage, Stream, Session, Commands,           *)
(*                        LSPClient, StandardIO                            *)
(*   src/api/__init__.py  wrap_rpc, StandardIO, Client                     *)
(*   src/gotools.py       GoplsClient.handle_initialize                    *)
(*   src/cpptools.py      Client (its transport is not in src/ and is      *)
(*                        modelled as the specification describes it)      *)
(* Byte strings are sequences of byte values (0..255); Python slices and   *)
(* indices are 0-based and are kept so through Slice and Index.            *)
(***************************************************************************)
EXTENDS Integers, Sequences, FiniteSets, TLC

\* ------------------------------------------------------------------ bounds

\* longest body enumerated byte by byte
MaxBodyLen == 2
\* get_content calls modelled between two put calls
MaxGets == 2
\* frames the child process writes
MaxInbound == 2
\* requests the client sends
MaxRequests == 2

\* ------------------------------------------------------------- byte strings

CR == 13
LF == 10

Min(a, b) == IF a < b THEN a ELSE b

\* Python s[a:b] for 0 <= a, 0 <= b (clamped to the length of s)
Slice(s, a, b) == SubSeq(s, a + 1, Min(b, Len(s)))

\* a slice that drops everything: the buffer emptied after a content is taken
SliceNothing(s, a) == <<>>

\* Python s[a:]
SliceFrom(s, a) == SubSeq(s, a + 1, Len(s))

\* positions (0-based) at which sub occurs in s
Occurrences(s, sub) ==
    {i \in 0..(Len(s) - Len(sub)) : SubSeq(s, i + 1, i + Len(sub)) = sub}

\* bytes.index(sub): the lowest position; -1 stands for the ValueError raised
Index(s, sub) ==
    IF Occurrences(s, sub) = {} THEN -1
    ELSE CHOOSE i \in Occurrences(s, sub) : \A j \in Occurrences(s, sub) : i <= j

RECURSIVE SeqsUpTo(_, _)
\* all sequences over S of length 0..n
SeqsUpTo(S, n) ==
    IF n = 0 THEN {<<>>}
    ELSE LET shorter == SeqsUpTo(S, n - 1)
         IN  shorter \cup {Append(s, x) : s \in {t \in shorter : Len(t) = n - 1}, x \in S}

\* b"Content-Length: "
ContentLengthPrefix ==
    <<67, 111, 110, 116, 101, 110, 116, 45, 76, 101, 110, 103, 116, 104, 58, 32>>

IsDigit(c) == c \in 48..57

RECURSIVE Decimal(_)
\* str(n).encode("ascii") for n >= 0
Decimal(n) ==
    IF n < 10 THEN <<48 + n>> ELSE Append(Decimal(n \div 10), 48 + (n % 10))

RECURSIVE ParseInt(_)
\* int(digits) for a non-empty run of ASCII digits
ParseInt(digits) ==
    IF Len(digits) = 1 THEN digits[1] - 48
    ELSE 10 * ParseInt(SubSeq(digits, 1, Len(digits) - 1)) + (digits[Len(digits)] - 48)

\* --------------------------------------------------- framing (the writers)

\* RPCMessage.to_bytes applied to an encoded body: header, b"\r\n\r\n", body
to_bytes(message_encoded) ==
    ContentLengthPrefix \o Decimal(Len(message_encoded))
        \o <<CR, LF, CR, LF>> \o message_encoded

\* wrap_rpc: header b"Content-Length: %d\r\n", then b"%s\r\n%s"
wrap_rpc(content) ==
    LET header == ContentLengthPrefix \o Decimal(Len(content)) \o <<CR, LF>>
    IN  header \o <<CR, LF>> \o content

\* ------------------------------------------------------- Stream (lsp.py)

\* the local separator of Stream.get_content
separator == <<CR, LF, CR, LF>>

\* headers.decode("ascii") raises UnicodeDecodeError (a ValueError) on a byte > 127
IsAscii(headers) == \A i \in 1..Len(headers) : headers[i] < 128

\* the pattern without its ^ anchor: a match anywhere in a line
ContentLengthMatchesAnywhere(headers) ==
    {i \in 1..Len(headers) :
        /\ i + Len(ContentLengthPrefix) <= Len(headers)
        /\ SubSeq(headers, i, i + Len(ContentLengthPrefix) - 1) = ContentLengthPrefix
        /\ IsDigit(headers[i + Len(ContentLengthPrefix)])}

\* start positions (1-based) where ^Content-Length: (\d+) matches under re.MULTILINE
ContentLengthMatches(headers) ==
    {i \in 1..Len(headers) :
        /\ (i = 1 \/ headers[i - 1] = LF)
        /\ i + Len(ContentLengthPrefix) <= Len(headers)
        /\ SubSeq(headers, i, i + Len(ContentLengthPrefix) - 1) = ContentLengthPrefix
        /\ IsDigit(headers[i + Len(ContentLengthPrefix)])}

\* the greedy group (\d+) that starts at position j (1-based)
DigitRun(headers, j) ==
    LET ends == {k \in j..Len(headers) : \A m \in j..k : IsDigit(headers[m])}
        last == CHOOSE k \in ends : \A m \in ends : m <= k
    IN  SubSeq(headers, j, last)

\* Stream._get_content_length: the value, or -1 for the ValueError raised
get_content_length(headers) ==
    IF ~IsAscii(headers) \/ ContentLengthMatches(headers) = {} THEN -1
    ELSE LET found == CHOOSE i \in ContentLengthMatches(headers) :
                          \A j \in ContentLengthMatches(headers) : i <= j
         IN  ParseInt(DigitRun(headers, found + Len(ContentLengthPrefix)))

\* start_index of Stream.get_content, with a separator of two bytes
start_index_short(header_end) == header_end + 2

\* start_index = header_end + len(separator)
start_index(header_end) == header_end + Len(separator)

\* Stream.get_content on the joined buffer: what it raises or returns, and the
\* buffer it leaves
get_content(buffers) ==
    IF buffers = <<>>
    THEN [kind |-> "EOFError", content |-> <<>>, buffer |-> buffers]
    ELSE LET header_end == Index(buffers, separator)
             content_length ==
                 IF header_end < 0 THEN -1
                 ELSE get_content_length(Slice(buffers, 0, header_end))
         IN  IF header_end < 0 \/ content_length < 0
             THEN \* except ValueError: clean up buffer, raise InvalidMessage
                  [kind |-> "InvalidMessage", content |-> <<>>, buffer |-> <<>>]
             ELSE LET end_index == start_index(header_end) + content_length
                      content == Slice(buffers, start_index(header_end), end_index)
                  IN  IF Len(content) < content_length
                      THEN [kind |-> "ContentIncomplete", content |-> <<>>,
                            buffer |-> buffers]
                      ELSE [kind |-> "content", content |-> content,
                            buffer |-> SliceFrom(buffers, end_index)]

\* ------------------------------------------------------------------ state

VARIABLES
    batch,          \* the bodies whose frames are put into the Stream in one call
    body,       \* the body whose frame the peer sends
    wire,       \* bytes of the frame not yet handed to Stream.put
    buffer,     \* Stream.buffer, joined
    outcome,    \* what the last get_content call raised or returned
    gets,       \* get_content calls since the last put
    puts,       \* put calls so far: 0, 1, or 2 for two and more
    \* StandardIO (lsp.py) and the child process behind it
    server_process, \* StandardIO.server_process: None or the Popen object
    returncode,     \* what server_process.poll() returns: None while the child runs
    unsent,         \* the rest of a frame the child has written the start of
    stdout,         \* bytes the child has written and _listen_stdout has not read
    message_queue,  \* the queue.Queue between _listen_stdout and _listen_message
    reader,         \* the _listen_stdout thread
    listener,       \* the _listen_message thread
    \* LSPClient
    request_map,    \* LSPClient.request_map: id -> method
    current_req_id, \* LSPClient.current_req_id
    \* what the run has shown so far
    sent,           \* number of frames the child has written
    called,         \* the last call of the client or dispatch of the listen loop
    written,        \* the messages that call wrote to the child's stdin, in order
    handled,        \* the handler invocations that call made, in order
    superseded,     \* ids that send_request has cancelled for a newer request
    corrupt,        \* the child has written a frame that cannot be decoded
    fragmented,     \* the child has written a frame in two parts
    decode_error,   \* how the listen loop last failed to decode its input
    threads,        \* where each caller thread stands in send_request
    assigned,       \* the ids next_request_id has returned, in that order
    generation,     \* how many child processes the transport has spawned
    origin,         \* for each request id written, the generation it was written to
    is_initialized, \* session.is_initialized
    documents,      \* Commands.documents: file name -> version
    transport_process,  \* cpptools: the child of Client.transport
    spawned,            \* cpptools: calls of transport.run_server so far
    stopped,            \* cpptools: children that have exited or were terminated
    run_server_lock,    \* cpptools: the thread that holds Client.run_server_lock
    caller,             \* cpptools: where each thread is in Client.run_server
    client_initialized, \* cpptools: Client._initialized
    initialized_with,   \* cpptools: the child that answered initialize, by number
    pending,            \* cpptools: an initialize request waits for its response
    process,            \* api: StandardIO._process: None, or a Popen "alive" or "exited"
    run_event,          \* api: StandardIO._run_event is set
    terminating,        \* api: where each thread is in StandardIO.terminate
    writer,             \* api: where the caller of StandardIO.write is
    client_listener,    \* api: the thread of Client._listen
    sending,            \* where the caller stands in LSPClient.send_request
    stdin,              \* the messages send_request has written, in order
    senders,            \* where each thread stands in a transport's send_message
    issued,             \* the frames send_message was called with, in call order
    pipe,               \* the parts of frames in the pipe to the child's stdin
    now,                \* gotools: datetime.datetime.now(), in seconds
    CANCEL_RUN_SERVER,  \* gotools: next_check and exp_base of the CancelRunServer
    attempts,           \* gotools: what the run_server attempts so far have shown
    registry,           \* api: Client._request_map, _canceled_requests, _temp_request_id
    request_map_lock,   \* api: the thread that holds Client._request_map_lock
    control,            \* api: where each thread of the Client stands
    children,           \* lsp: every child StandardIO.run_server has spawned
    stdout_threads,     \* lsp: the _listen_stdout thread each run_server started
    message_threads,    \* lsp: the _listen_message thread each run_server started
    receiver            \* lsp: the one queue all these threads share

streamVars == <<body, wire, gets, puts, batch>>
ioVars == <<server_process, returncode, unsent, stdout, message_queue, reader, listener>>
clientVars == <<request_map, current_req_id>>
observed == <<called, written, handled>>
historyVars ==
    <<sent, corrupt, fragmented, observed, superseded, decode_error>>
threadVars == <<threads, assigned>>
generationVars == <<generation, origin>>
lspVars == <<ioVars, clientVars, historyVars, threadVars, generationVars>>

\* the variables of the components modelled further down
sessionVars == <<is_initialized, documents>>
cppVars ==
    <<transport_process, spawned, stopped, run_server_lock, caller,
      client_initialized, initialized_with, pending>>
apiVars == <<process, run_event, terminating, writer, client_listener>>
requestVars == <<sending, stdin>>
pipeVars == <<senders, issued, pipe>>
backoffVars == <<now, CANCEL_RUN_SERVER, attempts>>
registryVars == <<registry, request_map_lock, control>>
restartVars == <<children, stdout_threads, message_threads, receiver>>
elsewhere == <<sessionVars, cppVars, apiVars, requestVars, pipeVars, backoffVars,
    registryVars, restartVars>>

vars == <<streamVars, buffer, outcome, lspVars, elsewhere>>

\* the value None among strings
None == "None"
\* an optional value of any type: Nothing is None, Some(v) is v
Nothing == <<>>
Some(v) == <<v>>
EmptyMap == [k \in {} |-> None]
NoCall == [op |-> None, raised |-> None]

\* the threads that call send_request, or Client.run_server of cpptools.py
Threads == {1, 2}

\* a thread outside send_request
IdleThread == [pc |-> "idle", method |-> None, loaded |-> -1, request_id |-> -1]

\* the threads that call Client.terminate_server of api/__init__.py
Terminators == {"caller", "listener"}

\* the caller outside send_request
IdleSending ==
    [pc |-> "idle", method |-> None, request_id |-> -1, request_map_c |-> <<>>,
     next |-> 1]

\* Client.__init__ and Client._reset_state of api/__init__.py
Client_reset_state ==
    [request_map |-> EmptyMap, canceled_requests |-> {}, temp_request_id |-> -1]

\* the threads of a Client: one that calls its methods, and the _listen thread
ClientThreads == {"caller", "listener"}

\* a thread outside the methods of the Client
IdleControl == [pc |-> "idle", method |-> None, id |-> -1, error |-> FALSE]

\* CancelRunServer.__init__ and reset of gotools.py
CancelRunServer_reset == [next_check |-> Nothing, exp_base |-> 1]

\* no run_server attempt was made yet: the attempts made, the +1 steps of the
\* clock, the failed attempts since the last success, the delay the last
\* attempt scheduled and the next_check a failed attempt has left
NoAttempts ==
    [count |-> 0, ticks |-> 0, failures |-> 0, delay |-> 0, not_before |-> Nothing]

\* the threads that call send_message: the caller of send_request or
\* send_notification, the listen loop that calls send_response
Senders == {"caller", "listener"}

\* a thread outside send_message
IdleSender == [pc |-> "idle", frame |-> 0, large |-> FALSE]

\* the session and the other components before anything is called
IdleElsewhere ==
    /\ is_initialized = FALSE
    /\ documents = EmptyMap
    /\ transport_process = None
    /\ spawned = 0
    /\ stopped = 0
    /\ run_server_lock = Nothing
    /\ caller = [t \in Threads |-> "idle"]
    /\ client_initialized = FALSE
    /\ initialized_with = 0
    /\ pending = FALSE
    /\ process = None
    /\ run_event = FALSE
    /\ terminating = [t \in Terminators |-> "idle"]
    /\ writer = "idle"
    /\ client_listener = "idle"
    /\ sending = IdleSending
    /\ stdin = <<>>
    /\ senders = [s \in Senders |-> IdleSender]
    /\ issued = <<>>
    /\ pipe = <<>>
    /\ now = 0
    /\ CANCEL_RUN_SERVER = CancelRunServer_reset
    /\ attempts = NoAttempts
    /\ registry = Client_reset_state
    /\ request_map_lock = Nothing
    /\ control = [t \in ClientThreads |-> IdleControl]
    /\ children = <<>>
    /\ stdout_threads = <<>>
    /\ message_threads = <<>>
    /\ receiver = <<>>

\* the variables of the client and its transport before anything happened
IdleLSP ==
    /\ IdleElsewhere
    /\ threads = [t \in Threads |-> IdleThread]
    /\ assigned = <<>>
    /\ generation = 0
    /\ origin = EmptyMap
    /\ server_process = None
    /\ returncode = Nothing
    /\ unsent = <<>>
    /\ stdout = <<>>
    /\ message_queue = <<>>
    /\ reader = "none"
    /\ listener = "none"
    /\ request_map = EmptyMap
    /\ current_req_id = -1
    /\ sent = 0
    /\ called = NoCall
    /\ written = <<>>
    /\ handled = <<>>
    /\ superseded = {}
    /\ corrupt = FALSE
    /\ fragmented = FALSE
    /\ decode_error = None

\* ------------------------------------------------- Stream fed chunk by chunk

\* byte values a body is built from: a letter, CR, LF, a digit
BodyBytes == {97, CR, LF, 49}

\* a body of ten bytes (two digits of Content-Length) and one of eleven
LongBodies == {[i \in 1..10 |-> 97], [i \in 1..11 |-> 97]}

Bodies == SeqsUpTo(BodyBytes, MaxBodyLen) \cup LongBodies

NoOutcome == [kind |-> "none", content |-> <<>>]

InitStream ==
    /\ body \in Bodies
    /\ wire \in {to_bytes(body), wrap_rpc(body)}
    /\ buffer = <<>>
    /\ outcome = NoOutcome
    /\ gets = 0
    /\ puts = 0
    /\ batch = <<>>
    /\ IdleLSP

\* Stream.put(data) with the next n bytes read from the peer
put(n) ==
    /\ n \in 1..Len(wire)
    /\ buffer' = buffer \o SubSeq(wire, 1, n)
    /\ wire' = SubSeq(wire, n + 1, Len(wire))
    /\ gets' = 0
    /\ puts' = Min(puts + 1, 2)
    /\ UNCHANGED <<body, batch, outcome, lspVars, elsewhere>>

\* one call of Stream.get_content
GetContent ==
    /\ gets < MaxGets
    /\ LET r == get_content(buffer)
       IN  /\ outcome' = [kind |-> r.kind, content |-> r.content]
           /\ buffer' = r.buffer
    /\ gets' = gets + 1
    /\ UNCHANGED <<body, wire, puts, batch, lspVars, elsewhere>>

Put == \E n \in 1..Len(wire) : put(n)

NextStream == Put \/ GetContent

SpecStream == InitStream /\ [][NextStream]_vars

\* the outcomes the claims call 'incomplete'
Incomplete == {"ContentIncomplete", "EOFError"}

\* C1: fragmentation invariance. However the frame of a body is split into
\* chunks, the get_content call that follows a put signals 'incomplete'
\* (ContentIncomplete or EOFError) while bytes of the frame are still to come,
\* and returns exactly the body once the last chunk has been put.
C1_FragmentationInvariance ==
    gets = 1 /\ puts >= 1 =>
        IF wire # <<>>
        THEN outcome.kind \in Incomplete
        ELSE outcome = [kind |-> "content", content |-> body]

\* C2: framing round trip. A fresh Stream that receives the whole frame of a
\* body (as framed by RPCMessage.to_bytes and by wrap_rpc) in one put returns
\* exactly that body from get_content, and nothing is left in the buffer.
C2_FramingRoundTrip ==
    puts = 1 /\ wire = <<>> /\ gets = 1 =>
        /\ outcome = [kind |-> "content", content |-> body]
        /\ buffer = <<>>

\* a frame with a two-digit Content-Length was put whole and its body returned
C2_Witness ==
    /\ puts = 1 /\ wire = <<>> /\ gets = 1
    /\ Len(body) >= 10
    /\ outcome.kind = "content"

\* ------------------------------------------------ JSON texts on the wire

\* ASCII of the names and literals the modelled messages are made of
Ascii ==
    ("jsonrpc" :> <<106, 115, 111, 110, 114, 112, 99>>)
    @@ ("id" :> <<105, 100>>)
    @@ ("method" :> <<109, 101, 116, 104, 111, 100>>)
    @@ ("result" :> <<114, 101, 115, 117, 108, 116>>)
    @@ ("2.0" :> <<50, 46, 48>>)
    @@ ("1.0" :> <<49, 46, 48>>)
    @@ ("workspace/configuration" :>
            <<119, 111, 114, 107, 115, 112, 97, 99, 101, 47,
              99, 111, 110, 102, 105, 103, 117, 114, 97, 116, 105, 111, 110>>)
    @@ ("x/y" :> <<120, 47, 121>>)

\* the members a modelled message may have, in the order they are written
KeyOrder == <<"jsonrpc", "id", "method", "result">>

Quote(text) == <<34>> \o text \o <<34>>

\* JSON text of the value of member k: a string for jsonrpc and method, a number else
JsonValue(k, v) == IF k \in {"jsonrpc", "method"} THEN Quote(Ascii[v]) ELSE Decimal(v)

RECURSIVE Members(_, _)
\* the members of d from KeyOrder[i] on, each preceded by a comma
Members(d, i) ==
    IF i > Len(KeyOrder) THEN <<>>
    ELSE LET k == KeyOrder[i]
         IN  (IF k \in DOMAIN d
              THEN <<44>> \o Quote(Ascii[k]) \o <<58>> \o JsonValue(k, d[k])
              ELSE <<>>) \o Members(d, i + 1)

\* the compact JSON text of the object d, as the server writes it
dumps(d) ==
    LET members == Members(d, 1)
    IN  <<123>> \o (IF members = <<>> THEN <<>> ELSE Tail(members)) \o <<125>>

\* ids of the responses the server sends
ServerIds == {0, 1}

\* ids the server gives its own requests
ServerRequestIds == {0}

\* methods the server names: one with a handler, one without
ServerMethods == {"workspace/configuration", "x/y"}

\* the JSON objects the server sends: responses, requests, notifications, a
\* response of another jsonrpc version and one without the jsonrpc member
WireDicts ==
    {[jsonrpc |-> "2.0", id |-> i, result |-> 1] : i \in ServerIds}
    \cup {[jsonrpc |-> "2.0", id |-> i, method |-> m] :
              i \in ServerRequestIds, m \in ServerMethods}
    \cup {[jsonrpc |-> "2.0", method |-> m] : m \in ServerMethods}
    \cup {[jsonrpc |-> "1.0", id |-> 0, result |-> 1], [id |-> 0, result |-> 1]}

\* a JSON text cut short: {"jsonrpc":"2.0","id":0,"result":1 without the brace
TruncatedText ==
    LET text == dumps([jsonrpc |-> "2.0", id |-> 0, result |-> 1])
    IN  SubSeq(text, 1, Len(text) - 1)

\* the text of each object the server sends
WireTexts == [d \in WireDicts |-> dumps(d)]

\* json.loads on the texts of the model: Some(object), or Nothing for the
\* JSONDecodeError raised
json_loads(text) ==
    IF \E d \in WireDicts : WireTexts[d] = text
    THEN Some(CHOOSE d \in WireDicts : WireTexts[d] = text)
    ELSE Nothing

\* RPCMessage.load of api/__init__.py: Some(message), or Nothing for what
\* json.loads or the test of loaded.get("jsonrpc") raises
load(data) ==
    LET loaded == json_loads(data)
    IN  IF loaded = Nothing THEN Nothing
        ELSE IF "jsonrpc" \notin DOMAIN loaded[1] THEN Nothing
        ELSE IF loaded[1]["jsonrpc"] # "2.0" THEN Nothing
        ELSE loaded

\* a decoder that does not look at the jsonrpc member
from_bytes_unchecked(b) == json_loads(b)

\* RPCMessage.from_bytes: Some(message), or Nothing for the InvalidMessage raised
from_bytes(b) ==
    LET loaded == json_loads(b)
    IN  IF loaded = Nothing THEN Nothing
        ELSE IF "jsonrpc" \notin DOMAIN loaded[1] THEN Nothing
        ELSE IF loaded[1]["jsonrpc"] # "2.0" THEN Nothing
        ELSE loaded

\* the messages RPCMessage.from_bytes lets through to exec_message
InboundMessages == {d \in WireDicts : from_bytes(WireTexts[d]) # Nothing}

\* dict.get(k) for a member whose value is a string
Get(d, k) == IF k \in DOMAIN d THEN d[k] ELSE None

\* ---------------------------------------------------- RPCMessage (lsp.py)

RPCMessage_notification(method) ==
    [jsonrpc |-> "2.0", method |-> method]

RPCMessage_request(id_, method) ==
    [jsonrpc |-> "2.0", id |-> id_, method |-> method]

RPCMessage_cancel_request(id_) ==
    [jsonrpc |-> "2.0", method |-> "$/cancelRequest", params |-> [id |-> id_]]

\* RPCMessage.response: result and error (optional values) are set when they
\* are not None
RPCMessage_response(id_, result, error) ==
    [k \in {"jsonrpc", "id"}
           \cup (IF result # Nothing THEN {"result"} ELSE {})
           \cup (IF error # Nothing THEN {"error"} ELSE {}) |->
        CASE k = "jsonrpc" -> "2.0"
          [] k = "id" -> id_
          [] k = "result" -> result[1]
          [] k = "error" -> error[1]]

\* --------------------------------------------------- StandardIO (lsp.py)

\* StandardIO.BUFFER_LENGTH
BUFFER_LENGTH == 4096

\* exit statuses of a child that ends by itself: success, failure
ExitStatuses == {0, 1}

\* the status of a child ended by Popen.terminate(): killed by SIGTERM
Terminated == -15

\* Python truth of what poll() returns: None and 0 are false
Truthy(x) == x # Nothing /\ x # Some(0)

\* StandardIO.is_running
is_running ==
    IF server_process = None THEN FALSE
    ELSE IF Truthy(returncode) THEN FALSE
    ELSE TRUE

\* StandardIO.send_message raises ServerOffline unless a process was started and
\* the write to its stdin succeeds (the pipe of an exited child is broken)
Writable == server_process # None /\ returncode = Nothing

\* LSPClient.run_server: the transport spawns the child and starts its reader
\* threads, then the client starts _listen_message; Popen may fail
run_server ==
    /\ server_process = None
    /\ \/ /\ server_process' = "Popen"
          /\ reader' = "running"
          /\ listener' = "running"
          /\ generation' = generation + 1
          /\ called' = [op |-> "run_server", raised |-> None]
       \/ /\ called' = [op |-> "run_server", raised |-> "FileNotFoundError"]
          /\ UNCHANGED <<server_process, reader, listener, generation>>
    /\ written' = <<>>
    /\ handled' = <<>>
    /\ UNCHANGED origin
    /\ UNCHANGED <<returncode, unsent, stdout, message_queue, buffer, outcome,
                   clientVars, sent, corrupt, fragmented, superseded, decode_error,
                   streamVars, threadVars,
                   elsewhere>>

\* LSPClient.shutdown_server: StandardIO.terminate
shutdown_server ==
    /\ IF is_running /\ returncode = Nothing
       THEN returncode' = Some(Terminated)
       ELSE UNCHANGED returncode
    /\ UNCHANGED <<server_process, unsent, stdout, message_queue, reader, listener,
                   buffer, outcome, clientVars, historyVars, streamVars, threadVars,
                   generationVars, elsewhere>>

\* a reader that returns at the end of the stream without telling the listener
ListenStdout_silent ==
    /\ reader = "running"
    /\ \/ /\ stdout # <<>>
          /\ LET n == Min(Len(stdout), BUFFER_LENGTH)
             IN  /\ message_queue' = Append(message_queue, SubSeq(stdout, 1, n))
                 /\ stdout' = SubSeq(stdout, n + 1, Len(stdout))
          /\ UNCHANGED reader
       \/ /\ stdout = <<>>
          /\ returncode # Nothing
          /\ UNCHANGED message_queue
          /\ reader' = "done"
          /\ UNCHANGED stdout
    /\ UNCHANGED <<server_process, returncode, unsent, listener, buffer, outcome,
                   clientVars, historyVars, streamVars, threadVars,
                   generationVars, elsewhere>>

\* one turn of StandardIO._listen_stdout: stdout.read(BUFFER_LENGTH) returns the
\* bytes that are there, BUFFER_LENGTH at most, and b"" at the end of the stream
ListenStdout ==
    /\ reader = "running"
    /\ \/ /\ stdout # <<>>
          /\ LET n == Min(Len(stdout), BUFFER_LENGTH)
             IN  /\ message_queue' = Append(message_queue, SubSeq(stdout, 1, n))
                 /\ stdout' = SubSeq(stdout, n + 1, Len(stdout))
          /\ UNCHANGED reader
       \/ /\ stdout = <<>>
          /\ returncode # Nothing
          /\ message_queue' = Append(message_queue, <<>>)
          /\ reader' = "done"
          /\ UNCHANGED stdout
    /\ UNCHANGED <<server_process, returncode, unsent, listener, buffer, outcome,
                   clientVars, historyVars, streamVars, threadVars,
                   generationVars, elsewhere>>

\* ------------------------------------------------------ the child process

\* a header block without a Content-Length line: b"X-Type: 1\r\n\r\n" and a body
HeaderlessFrame ==
    <<88, 45, 84, 121, 112, 101, 58, 32, 49>> \o <<CR, LF, CR, LF>>
        \o dumps([jsonrpc |-> "2.0", id |-> 0, result |-> 1])

\* the frames whose body RPCMessage.from_bytes accepts
ValidFrames == {to_bytes(WireTexts[d]) : d \in InboundMessages}

ServerFrames ==
    {to_bytes(WireTexts[d]) : d \in WireDicts}
    \cup {to_bytes(TruncatedText), HeaderlessFrame}

\* where the child's write of a frame may be cut in two: inside the header,
\* inside the body
WriteCuts == {8, 30}

\* the child writes a frame to its stdout, whole or the start of it
ServerSend ==
    /\ Writable
    /\ unsent = <<>>
    /\ sent < MaxInbound
    /\ \E frame \in ServerFrames :
       \E n \in {Len(frame)} \cup {c \in WriteCuts : c < Len(frame)} :
          /\ stdout' = stdout \o SubSeq(frame, 1, n)
          /\ unsent' = SubSeq(frame, n + 1, Len(frame))
          /\ corrupt' = (corrupt \/ frame \notin ValidFrames)
          /\ fragmented' = (fragmented \/ n < Len(frame))
    /\ sent' = sent + 1
    /\ UNCHANGED <<server_process, returncode, message_queue, reader,
                   listener, buffer, outcome, clientVars, observed, superseded,
                   decode_error, streamVars, threadVars,
                   generationVars, elsewhere>>

\* the child writes the rest of the frame
ServerFlush ==
    /\ Writable
    /\ unsent # <<>>
    /\ stdout' = stdout \o unsent
    /\ unsent' = <<>>
    /\ UNCHANGED <<server_process, returncode, message_queue, reader,
                   listener, buffer, outcome, clientVars, historyVars, streamVars, threadVars,
                   generationVars, elsewhere>>

\* the child exits by itself
ServerExit ==
    /\ server_process # None
    /\ returncode = Nothing
    /\ \E status \in ExitStatuses : returncode' = Some(status)
    /\ UNCHANGED <<server_process, unsent, stdout, message_queue, reader, listener,
                   buffer, outcome, clientVars, historyVars, streamVars, threadVars,
                   generationVars, elsewhere>>

\* ---------------------------------------------------- LSPClient (lsp.py)

\* keys of BaseHandler.get_command_map that the model uses
command_map == {"initialize", "textDocument/hover", "workspace/configuration"}

\* methods the caller sends requests of
Methods == {"initialize", "textDocument/hover"}

\* what a handler does when it is called: BaseHandler's handlers return, one
\* of a subclass may raise
HandlerOutcomes == {"return", "raise"}

\* a pop that leaves the dict as it is
Without_nothing(d, S) == d

\* the dict d without the keys in S
Without(d, S) == [k \in DOMAIN d \ S |-> d[k]]

RECURSIVE Ascending(_)
\* the elements of a finite set of integers in ascending order, which is the
\* insertion order of request_map
Ascending(S) ==
    IF S = {} THEN <<>>
    ELSE LET least == CHOOSE x \in S : \A y \in S : x <= y
         IN  <<least>> \o Ascending(S \ {least})

\* the error LSPClient.exec_message answers with
ErrorStatus == [code |-> 9001]

\* LSPClient.exec_command called with a method and handler outcome h: the
\* handler invocations it makes
Invocations(method, message, h) ==
    IF method \in command_map
    THEN <<[method |-> method, message |-> message, outcome |-> h]>>
    ELSE <<>>

\* exec_command raises: InvalidMessage for an unknown method, or what the handler raises
CommandRaises(method, h) == method \notin command_map \/ h = "raise"

\* the test of LSPClient.exec_message that makes a message a response
is_response(message) ==
    "id" \in DOMAIN message /\ message["id"] \in DOMAIN request_map

\* LSPClient.exec_message with the handler (if one is called) ending as h: the
\* registry it leaves, what it writes, the handlers it calls, what it raises
exec_message(message, h) ==
    LET has_id == "id" \in DOMAIN message
        message_id == message["id"]
        message_method == Get(message, "method")
    IN  IF is_response(message)
        THEN \* exec_response: pop the id, call the handler of its method; whatever
             \* is raised is logged
             [request_map |-> Without(request_map, {message_id}),
              written |-> <<>>,
              handled |-> Invocations(request_map[message_id], message, h),
              raised |-> None]
        ELSE IF CommandRaises(message_method, h) /\ has_id
        THEN \* send_response(message_id, error=...); ServerOffline is not caught
             IF Writable
             THEN [request_map |-> request_map,
                   written |-> <<RPCMessage_response(message_id, Nothing,
                                                     Some(ErrorStatus))>>,
                   handled |-> Invocations(message_method, message, h),
                   raised |-> None]
             ELSE [request_map |-> request_map,
                   written |-> <<>>,
                   handled |-> Invocations(message_method, message, h),
                   raised |-> "ServerOffline"]
        ELSE [request_map |-> request_map,
              written |-> <<>>,
              handled |-> Invocations(message_method, message, h),
              raised |-> None]

\* the listen loop calls exec_message; an exception it lets through ends the thread
ExecMessage(message) ==
    \E h \in HandlerOutcomes :
        LET r == exec_message(message, h)
        IN  /\ request_map' = r.request_map
            /\ written' = r.written
            /\ handled' = r.handled
            /\ called' = [op |-> "exec_message", message |-> message,
                          raised |-> r.raised]
            /\ listener' = IF r.raised = None THEN listener ELSE "crashed"

\* one turn of the loop of LSPClient._listen_message
ListenMessage ==
    /\ listener = "running"
    /\ message_queue # <<>>
    /\ message_queue' = Tail(message_queue)
    /\ LET message == Head(message_queue)
       IN  IF message = <<>>
           THEN /\ listener' = "returned"
                /\ UNCHANGED <<buffer, outcome, request_map, observed, decode_error>>
           ELSE LET r == get_content(buffer \o message)
                    decoded == from_bytes(r.content)
                IN  /\ buffer' = r.buffer
                    /\ outcome' = [kind |-> r.kind, content |-> r.content]
                    /\ IF r.kind \in {"EOFError", "ContentIncomplete"}
                       THEN UNCHANGED <<listener, request_map, observed, decode_error>>
                       ELSE IF r.kind = "InvalidMessage"
                       THEN \* LOGGER.error(err)
                            /\ decode_error' = "header"
                            /\ UNCHANGED <<listener, request_map, observed>>
                       ELSE IF decoded = Nothing
                       THEN \* raised in the else clause: the thread ends
                            /\ decode_error' = "body"
                            /\ listener' = "crashed"
                            /\ UNCHANGED <<request_map, observed>>
                       ELSE /\ ExecMessage(decoded[1])
                            /\ UNCHANGED decode_error
    /\ UNCHANGED <<server_process, returncode, unsent, stdout, reader,
                   current_req_id, sent, corrupt, fragmented, superseded, streamVars, threadVars,
                   generationVars, elsewhere>>

\* ids of the pending requests of a method
Pending(method) == {i \in DOMAIN request_map : request_map[i] = method}

\* LSPClient.send_request that cancels nothing
to_cancel_nothing(method) == <<>>

\* the requests LSPClient.send_request cancels, in the order of request_map
to_cancel(method) == Ascending(Pending(method))

\* LSPClient.send_request, with the cancel_request calls it makes
send_request(method) ==
    /\ current_req_id + 1 < MaxRequests
    /\ LET request_id == current_req_id + 1
           message == RPCMessage_request(request_id, method)
           cancelled == to_cancel(method)
       IN  /\ current_req_id' = request_id
           /\ origin' = IF Writable THEN (request_id :> generation) @@ origin
                        ELSE origin
           /\ IF Writable
              THEN /\ request_map' =
                        (request_id :> method)
                        @@ Without(request_map, {cancelled[i] : i \in 1..Len(cancelled)})
                   /\ written' =
                        [i \in 1..Len(cancelled) |-> RPCMessage_cancel_request(cancelled[i])]
                        \o <<message>>
                   /\ superseded' = superseded \cup {cancelled[i] : i \in 1..Len(cancelled)}
                   /\ called' = [op |-> "send_request", method |-> method,
                                 id |-> request_id, raised |-> None]
              ELSE \* the first send_message raises ServerOffline
                   /\ request_map' =
                        IF cancelled # <<>>
                        THEN Without(request_map, {cancelled[1]})
                        ELSE (request_id :> method) @@ request_map
                   /\ written' = <<>>
                   /\ superseded' =
                        IF cancelled # <<>> THEN superseded \cup {cancelled[1]}
                        ELSE superseded
                   /\ called' = [op |-> "send_request", method |-> method,
                                 id |-> request_id, raised |-> "ServerOffline"]
    /\ handled' = <<>>
    /\ UNCHANGED <<ioVars, buffer, outcome, sent, corrupt, fragmented, decode_error,
                   streamVars, threadVars,
                   generation, elsewhere>>

\* LSPClient.cancel_request
cancel_request(request_id) ==
    /\ IF request_id \notin DOMAIN request_map
       THEN \* request_map.pop(request_id) raises KeyError
            /\ called' = [op |-> "cancel_request", id |-> request_id,
                          raised |-> "KeyError"]
            /\ written' = <<>>
            /\ UNCHANGED request_map
       ELSE /\ request_map' = Without(request_map, {request_id})
            /\ IF Writable
               THEN /\ written' = <<RPCMessage_cancel_request(request_id)>>
                    /\ called' = [op |-> "cancel_request", id |-> request_id,
                                  raised |-> None]
               ELSE /\ written' = <<>>
                    /\ called' = [op |-> "cancel_request", id |-> request_id,
                                  raised |-> "ServerOffline"]
    /\ handled' = <<>>
    /\ UNCHANGED <<ioVars, buffer, outcome, current_req_id, sent, corrupt, fragmented,
                   superseded, decode_error, streamVars, threadVars,
                   generationVars, elsewhere>>

SendRequest == \E method \in Methods : send_request(method)

CancelRequest == \E request_id \in 0..(MaxRequests - 1) : cancel_request(request_id)

\* the variables of the fed Stream while the client is modelled
IdleStream ==
    /\ body = <<>>
    /\ wire = <<>>
    /\ gets = 0
    /\ puts = 0
    /\ batch = <<>>

InitLSP ==
    /\ IdleLSP
    /\ IdleStream
    /\ buffer = <<>>
    /\ outcome = NoOutcome

\* the listen loop has decoded a message and calls exec_message with it
Dispatch ==
    /\ listener = "running"
    /\ \E message \in InboundMessages : ExecMessage(message)
    /\ UNCHANGED <<server_process, returncode, unsent, stdout, message_queue,
                   reader, buffer, outcome, current_req_id, sent, corrupt, fragmented,
                   superseded, decode_error, streamVars, threadVars,
                   generationVars, elsewhere>>

\* the loop of _listen_message gets the b"" that _listen_stdout puts at the end
\* of the child's stdout, and returns
EndOfStream ==
    /\ listener = "running"
    /\ returncode # Nothing
    /\ listener' = "returned"
    /\ reader' = "done"
    /\ UNCHANGED <<server_process, returncode, unsent, stdout, message_queue,
                   buffer, outcome, clientVars, historyVars, streamVars, threadVars,
                   generationVars, elsewhere>>

\* the client and its calls, the listen loop seen from exec_message on
NextLSP ==
    \/ run_server
    \/ shutdown_server
    \/ SendRequest
    \/ CancelRequest
    \/ Dispatch
    \/ EndOfStream
    \/ ServerExit

SpecLSP == InitLSP /\ [][NextLSP]_vars

\* the client with the bytes of the child's stdout on their way to exec_message
NextListen ==
    \/ run_server
    \/ shutdown_server
    \/ ListenStdout
    \/ ListenMessage
    \/ ServerSend
    \/ ServerFlush
    \/ ServerExit

SpecListen == InitLSP /\ [][NextListen]_vars

\* -------------------------------------------- a server started a second time

\* child processes spawned one after the other
MaxGenerations == 2

\* LSPClient.run_server called again once the child has ended and both loops
\* have returned: a new Popen replaces server_process, new threads are started
restart_server ==
    /\ server_process # None
    /\ returncode # Nothing
    /\ reader = "done"
    /\ listener # "running"
    /\ generation < MaxGenerations
    /\ generation' = generation + 1
    /\ returncode' = Nothing
    /\ unsent' = <<>>
    /\ stdout' = <<>>
    /\ message_queue' = <<>>
    /\ reader' = "running"
    /\ listener' = "running"
    /\ called' = [op |-> "run_server", raised |-> None]
    /\ written' = <<>>
    /\ handled' = <<>>
    /\ UNCHANGED <<server_process, buffer, outcome, clientVars, sent, corrupt,
                   fragmented, superseded, decode_error, streamVars, threadVars,
                   origin, elsewhere>>

\* the client over several generations of its server
NextRestart ==
    \/ run_server
    \/ restart_server
    \/ shutdown_server
    \/ SendRequest
    \/ Dispatch
    \/ EndOfStream
    \/ ServerExit

SpecRestart == InitLSP /\ [][NextRestart]_vars

\* ---------------------------------------------- Session, Commands (lsp.py)

\* files the editor works on
Files == {"a.go", "b.go"}

\* a document is changed at most this many times
MaxVersion == 1

\* the decorator that accepts every call
session_initialized_always == TRUE

\* Session.initialized: the wrapper calls func if self.is_initialized
session_initialized == is_initialized

\* a call that returns without sending: the document is not open
Returns(op) ==
    /\ called' = [op |-> op, raised |-> None]
    /\ written' = <<>>
    /\ handled' = <<>>
    /\ UNCHANGED <<ioVars, buffer, outcome, clientVars, sent, corrupt, fragmented,
                   superseded, decode_error, streamVars, threadVars, generationVars,
                   sessionVars, cppVars, apiVars, requestVars, pipeVars, backoffVars,
                   registryVars, restartVars>>

\* the wrapper of Session.initialized raises NotInitialized
NotInitialized(op) ==
    /\ ~session_initialized
    /\ called' = [op |-> op, raised |-> "NotInitialized"]
    /\ written' = <<>>
    /\ handled' = <<>>
    /\ UNCHANGED <<ioVars, buffer, outcome, clientVars, sent, corrupt, fragmented,
                   superseded, decode_error, streamVars, threadVars, generationVars,
                   sessionVars, cppVars, apiVars, requestVars, pipeVars, backoffVars,
                   registryVars, restartVars>>

\* LSPClient.send_notification from a method of Commands: the message is written,
\* or ServerOffline is raised
send_notification(op, method) ==
    /\ written' = IF Writable THEN <<RPCMessage_notification(method)>> ELSE <<>>
    /\ called' = [op |-> op, raised |-> IF Writable THEN None ELSE "ServerOffline"]
    /\ handled' = <<>>
    /\ UNCHANGED <<ioVars, buffer, outcome, clientVars, sent, corrupt, fragmented,
                   superseded, decode_error, streamVars, threadVars, generationVars,
                   cppVars, apiVars, requestVars, pipeVars, backoffVars, registryVars,
                   restartVars>>

\* Commands.initialize
initialize ==
    /\ send_request("initialize")

\* Commands.initialized: the notification, then session.initialize()
initialized ==
    /\ send_notification("initialized", "initialized")
    /\ is_initialized' = (is_initialized \/ Writable)
    /\ UNCHANGED documents

\* Commands.exit: the notification, then session.exit()
exit ==
    /\ send_notification("exit", "exit")
    /\ is_initialized' = (is_initialized /\ ~Writable)
    /\ UNCHANGED documents

\* Commands.textDocument_didOpen
textDocument_didOpen(file_name) ==
    \/ NotInitialized("textDocument_didOpen")
    \/ /\ session_initialized
       /\ documents' = (file_name :> 0) @@ documents
       /\ send_notification("textDocument_didOpen", "textDocument/didOpen")
       /\ UNCHANGED is_initialized

\* Commands.textDocument_didChange: next_version, then the notification
textDocument_didChange(file_name) ==
    \/ NotInitialized("textDocument_didChange")
    \/ /\ session_initialized
       /\ file_name \notin DOMAIN documents
       /\ Returns("textDocument_didChange")
    \/ /\ session_initialized
       /\ file_name \in DOMAIN documents
       /\ documents[file_name] < MaxVersion
       /\ documents' = [documents EXCEPT ![file_name] = @ + 1]
       /\ send_notification("textDocument_didChange", "textDocument/didChange")
       /\ UNCHANGED is_initialized

\* Commands.textDocument_didClose: the document is removed after the notification
textDocument_didClose(file_name) ==
    \/ NotInitialized("textDocument_didClose")
    \/ /\ session_initialized
       /\ file_name \notin DOMAIN documents
       /\ Returns("textDocument_didClose")
    \/ /\ session_initialized
       /\ file_name \in DOMAIN documents
       /\ documents' = IF Writable THEN Without(documents, {file_name}) ELSE documents
       /\ send_notification("textDocument_didClose", "textDocument/didClose")
       /\ UNCHANGED is_initialized

\* Commands.textDocument_hover: a request, for a document that is open
textDocument_hover(file_name) ==
    \/ NotInitialized("textDocument_hover")
    \/ /\ session_initialized
       /\ file_name \notin DOMAIN documents
       /\ Returns("textDocument_hover")
    \/ /\ session_initialized
       /\ file_name \in DOMAIN documents
       /\ send_request("textDocument/hover")

\* the commands of a client, its server starting and ending
NextSession ==
    \/ run_server
    \/ ServerExit
    \/ initialize
    \/ initialized
    \/ exit
    \/ \E file_name \in Files : textDocument_didOpen(file_name)
    \/ \E file_name \in Files : textDocument_didChange(file_name)
    \/ \E file_name \in Files : textDocument_didClose(file_name)
    \/ \E file_name \in Files : textDocument_hover(file_name)

SpecSession == InitLSP /\ [][NextSession]_vars

\* ------------------------------------------- LSPClient.send_response (lsp.py)

\* LSPClient.send_response called by a handler or by the caller, with result and
\* error given or left None
send_response ==
    /\ \E request_id \in ServerRequestIds, result \in {Nothing, Some(1)},
          error \in {Nothing, Some(ErrorStatus)} :
          /\ written' = IF Writable
                        THEN <<RPCMessage_response(request_id, result, error)>>
                        ELSE <<>>
          /\ called' = [op |-> "send_response", id |-> request_id,
                        raised |-> IF Writable THEN None ELSE "ServerOffline"]
    /\ handled' = <<>>
    /\ UNCHANGED <<ioVars, buffer, outcome, clientVars, sent, corrupt, fragmented,
                   superseded, decode_error, streamVars, threadVars, generationVars,
                   elsewhere>>

\* the client sends requests, notifications and responses, and dispatches what
\* the server sends
NextRespond ==
    \/ run_server
    \/ ServerExit
    \/ SendRequest
    \/ initialized
    \/ send_response
    \/ Dispatch

SpecRespond == InitLSP /\ [][NextRespond]_vars

\* ------------------------------------ GoplsClient.handle_initialize (gotools.py)

\* the file of ACTIVE_DOCUMENT
ActiveFile == "a.go"

\* what the server sends while the client initializes: responses with a result
\* (0 stands for a result that is false in Python), error responses, and a
\* request and a notification that are named initialize
HandshakeMessages ==
    {[jsonrpc |-> "2.0", id |-> i, result |-> v] : i \in ServerIds, v \in {0, 1}}
    \cup {[jsonrpc |-> "2.0", id |-> i, error |-> ErrorStatus] : i \in ServerIds}
    \cup {[jsonrpc |-> "2.0", id |-> i, method |-> "initialize"] :
              i \in ServerRequestIds}
    \cup {[jsonrpc |-> "2.0", method |-> "initialize"]}

\* a handler that takes every message for a successful response
handle_initialize_always(message) ==
    [written |-> IF Writable
                 THEN <<RPCMessage_notification("initialized"),
                        RPCMessage_notification("textDocument/didOpen")>>
                 ELSE <<>>,
     is_initialized |-> is_initialized \/ Writable,
     documents |-> IF Writable THEN (ActiveFile :> 0) @@ documents ELSE documents,
     raised |-> IF Writable THEN None ELSE "ServerOffline"]

\* GoplsClient.handle_initialize: what it writes, the session and the documents
\* it leaves, what it raises. It returns on message.error and on a result that
\* is false; otherwise it calls initialized() and then textDocument_didOpen
handle_initialize(message) ==
    IF "error" \in DOMAIN message \/ "result" \notin DOMAIN message
    THEN [written |-> <<>>, is_initialized |-> is_initialized,
          documents |-> documents, raised |-> None]
    ELSE IF message.result = 0
    THEN [written |-> <<>>, is_initialized |-> is_initialized,
          documents |-> documents, raised |-> None]
    ELSE [written |-> IF Writable
                      THEN <<RPCMessage_notification("initialized"),
                             RPCMessage_notification("textDocument/didOpen")>>
                      ELSE <<>>,
          is_initialized |-> is_initialized \/ Writable,
          documents |-> IF Writable THEN (ActiveFile :> 0) @@ documents
                        ELSE documents,
          raised |-> IF Writable THEN None ELSE "ServerOffline"]

\* the listen loop calls exec_message with a message of the handshake; the
\* handler of initialize is GoplsClient.handle_initialize
HandleMessage ==
    /\ listener = "running"
    /\ \E message \in HandshakeMessages :
        LET method == IF is_response(message) THEN request_map[message.id]
                      ELSE Get(message, "method")
            invoked == method = "initialize"
            e == IF invoked THEN handle_initialize(message)
                 ELSE [written |-> <<>>, is_initialized |-> is_initialized,
                       documents |-> documents, raised |-> None]
            r == exec_message(message, IF e.raised = None THEN "return" ELSE "raise")
        IN  /\ request_map' = r.request_map
            /\ written' = e.written \o r.written
            /\ handled' = r.handled
            /\ called' = [op |-> "exec_message", message |-> message,
                          raised |-> r.raised]
            /\ listener' = IF r.raised = None THEN listener ELSE "crashed"
            /\ is_initialized' = e.is_initialized
            /\ documents' = e.documents
    /\ UNCHANGED <<server_process, returncode, unsent, stdout, message_queue,
                   reader, buffer, outcome, current_req_id, sent, corrupt, fragmented,
                   superseded, decode_error, streamVars, threadVars, generationVars,
                   cppVars, apiVars, requestVars, pipeVars, backoffVars, registryVars,
                   restartVars>>

\* a client that initializes its server, and ends the session
NextHandshake ==
    \/ run_server
    \/ ServerExit
    \/ SendRequest
    \/ HandleMessage
    \/ exit

SpecHandshake == InitLSP /\ [][NextHandshake]_vars

\* ------------------------------------------------------ Client (cpptools.py)

\* children that exit or are terminated
MaxStops == 2

\* what a step of cpptools.Client leaves alone
besideClient ==
    <<streamVars, buffer, outcome, lspVars, sessionVars, apiVars, requestVars, pipeVars,
    backoffVars, registryVars, restartVars>>

\* the transport of Client: a child was spawned and has not exited
transport_is_running == transport_process = "running"

\* the transport of Client spawns a child, which has been sent no request
transport_run_server ==
    /\ transport_process' = "running"
    /\ spawned' = spawned + 1
    /\ pending' = FALSE

\* the transport of Client kills its child, if one runs
transport_terminate_server ==
    /\ transport_is_running => stopped < MaxStops
    /\ transport_process' = None
    /\ stopped' = IF transport_is_running THEN stopped + 1 ELSE stopped
    /\ pending' = FALSE

\* Client.ready
ready == transport_is_running /\ client_initialized

\* a lock that lets every thread in
lock_free_always == TRUE

\* threading.Lock: run_server_lock can be acquired
lock_free == run_server_lock = Nothing

\* Client.run_server called by thread t, a step at a time: the lock is acquired,
\* is_running is tested, the transport runs the server, the lock is released,
\* the call returns and the thread may call again
Client_run_server(t) ==
    /\ \/ /\ caller[t] = "idle"
          /\ lock_free
          /\ run_server_lock' = Some(t)
          /\ caller' = [caller EXCEPT ![t] = "locked"]
          /\ UNCHANGED <<transport_process, spawned, pending>>
       \/ /\ caller[t] = "locked"
          /\ caller' = [caller EXCEPT ![t] =
                            IF transport_is_running THEN "release" ELSE "spawn"]
          /\ UNCHANGED <<run_server_lock, transport_process, spawned, pending>>
       \/ /\ caller[t] = "spawn"
          /\ transport_run_server
          /\ caller' = [caller EXCEPT ![t] = "release"]
          /\ UNCHANGED run_server_lock
       \/ /\ caller[t] = "release"
          /\ run_server_lock' = Nothing
          /\ caller' = [caller EXCEPT ![t] = "returned"]
          /\ UNCHANGED <<transport_process, spawned, pending>>
       \/ /\ caller[t] = "returned"
          /\ caller' = [caller EXCEPT ![t] = "idle"]
          /\ UNCHANGED <<run_server_lock, transport_process, spawned, pending>>
    /\ UNCHANGED <<stopped, client_initialized, initialized_with, besideClient>>

\* the child of the transport exits by itself
ProcessExit ==
    /\ transport_is_running
    /\ stopped < MaxStops
    /\ transport_process' = "exited"
    /\ stopped' = stopped + 1
    /\ UNCHANGED <<spawned, run_server_lock, caller, client_initialized,
                   initialized_with, pending, besideClient>>

\* Client.exit
Client_exit ==
    /\ client_initialized' = FALSE
    /\ transport_terminate_server
    /\ UNCHANGED <<spawned, run_server_lock, caller, initialized_with, besideClient>>

\* Client.initialize: the request is sent to a running server
Client_initialize ==
    /\ transport_is_running
    /\ pending' = TRUE
    /\ UNCHANGED <<transport_process, spawned, stopped, run_server_lock, caller,
                   client_initialized, initialized_with, besideClient>>

\* Client.handle_initialize called with the response: it returns on an error;
\* else send_notification, which fails when no server runs, then _initialized
Client_handle_initialize ==
    /\ pending
    /\ pending' = FALSE
    /\ \E error \in BOOLEAN :
          IF ~error /\ transport_is_running
          THEN /\ client_initialized' = TRUE
               /\ initialized_with' = spawned
          ELSE UNCHANGED <<client_initialized, initialized_with>>
    /\ UNCHANGED <<transport_process, spawned, stopped, run_server_lock, caller,
                   besideClient>>

\* threads that run the server, the session, the child that ends
NextReady ==
    \/ \E t \in Threads : Client_run_server(t)
    \/ ProcessExit
    \/ Client_exit
    \/ Client_initialize
    \/ Client_handle_initialize

SpecReady == InitLSP /\ [][NextReady]_vars

\* ------------------------------------------ StandardIO, Client (api/__init__.py)

\* what a step of StandardIO or of Client leaves alone
besideStandardIO ==
    <<streamVars, buffer, outcome, lspVars, sessionVars, cppVars, requestVars, pipeVars,
    backoffVars, registryVars, restartVars>>

\* StandardIO.is_running: bool(self._process) and self._process.poll() is None
StandardIO_is_running == process # None /\ process = "alive"

\* Client.run_server and Client.listen, once the last listen thread has ended and
\* no thread is in terminate: Popen (with shell=True), _run_event.set(), and
\* the thread of _listen is started
StandardIO_run ==
    /\ ~StandardIO_is_running
    /\ client_listener \in {"idle", "returned"}
    /\ \A t \in Terminators : terminating[t] \in {"idle", "AttributeError"}
    /\ process' = "alive"
    /\ run_event' = TRUE
    /\ client_listener' = "running"
    /\ UNCHANGED <<terminating, writer, besideStandardIO>>

\* the child is killed from outside, or exits
Killed ==
    /\ process = "alive"
    /\ process' = "exited"
    /\ UNCHANGED <<run_event, terminating, writer, client_listener, besideStandardIO>>

\* Client.terminate_server called by the caller thread, up to the first
\* statement of StandardIO.terminate: self._run_event.clear()
Client_terminate_server ==
    /\ terminating["caller"] = "idle"
    /\ run_event' = FALSE
    /\ terminating' = [terminating EXCEPT !["caller"] = "test"]
    /\ UNCHANGED <<process, writer, client_listener, besideStandardIO>>

\* the rest of StandardIO.terminate in thread t, a statement at a time: the test
\* of self._process, kill(), wait(), self._process = None, and the return.
\* self._process is read anew by each statement; None has no kill and no wait
StandardIO_terminate(t) ==
    /\ \/ /\ terminating[t] = "test"
          /\ terminating' = [terminating EXCEPT ![t] =
                                IF process # None THEN "kill" ELSE "returned"]
          /\ UNCHANGED process
       \/ /\ terminating[t] = "kill"
          /\ IF process = None
             THEN /\ terminating' = [terminating EXCEPT ![t] = "AttributeError"]
                  /\ UNCHANGED process
             ELSE /\ terminating' = [terminating EXCEPT ![t] = "wait"]
                  /\ process' = "exited"
       \/ /\ terminating[t] = "wait"
          /\ terminating' = [terminating EXCEPT ![t] =
                                IF process = None THEN "AttributeError" ELSE "release"]
          /\ UNCHANGED process
       \/ /\ terminating[t] = "release"
          /\ process' = None
          /\ terminating' = [terminating EXCEPT ![t] = "returned"]
       \/ /\ terminating[t] = "returned"
          /\ terminating' = [terminating EXCEPT ![t] = "idle"]
          /\ UNCHANGED process
    /\ UNCHANGED <<run_event, writer, client_listener, besideStandardIO>>

\* StandardIO.write: the call, then _run_event.wait(), then stdin.write and the
\* return. stdin is a BytesIO when _process is None, the pipe of the child
\* otherwise, which is broken once the child has exited
StandardIO_write ==
    /\ \/ /\ writer = "idle"
          /\ writer' = "waiting"
       \/ /\ writer = "waiting"
          /\ run_event
          /\ writer' = IF process = None THEN "lost"
                       ELSE IF process = "alive" THEN "written"
                       ELSE "BrokenPipeError"
       \/ /\ writer \in {"lost", "written", "BrokenPipeError"}
          /\ writer' = "idle"
    /\ UNCHANGED <<process, run_event, terminating, client_listener, besideStandardIO>>

\* the loop of Client._listen: transport.read() waits for _run_event, then reads
\* stdout, which is an empty BytesIO unless is_running(). A message is handled
\* and the loop goes on; EOFError breaks the loop; any other exception calls
\* terminate_server, then breaks
Client_listen ==
    /\ \/ /\ client_listener = "running"
          /\ run_event
          /\ client_listener' = "reading"
          /\ UNCHANGED <<run_event, terminating>>
       \/ /\ client_listener = "reading"
          /\ StandardIO_is_running
          /\ client_listener' = "running"
          /\ UNCHANGED <<run_event, terminating>>
       \/ /\ client_listener = "reading"
          /\ StandardIO_is_running
          /\ terminating["listener"] = "idle"
          /\ run_event' = FALSE
          /\ terminating' = [terminating EXCEPT !["listener"] = "test"]
          /\ client_listener' = "returned"
       \/ /\ client_listener = "reading"
          /\ ~StandardIO_is_running
          /\ client_listener' = "returned"
          /\ UNCHANGED <<run_event, terminating>>
    /\ UNCHANGED <<process, writer, besideStandardIO>>

\* the transport and its client: calls of run_server, terminate_server and
\* write, the listen thread, the child that ends
NextTerminate ==
    \/ StandardIO_run
    \/ Killed
    \/ Client_terminate_server
    \/ \E t \in Terminators : StandardIO_terminate(t)
    \/ StandardIO_write
    \/ Client_listen

SpecTerminate == InitLSP /\ [][NextTerminate]_vars

\* --------------------------------------------- the child dies, the loops end

\* the child writes its response to request 0, or the first part of it
ServerReply ==
    /\ Writable
    /\ unsent = <<>>
    /\ sent = 0
    /\ LET frame == to_bytes(WireTexts[[jsonrpc |-> "2.0", id |-> 0, result |-> 1]])
       IN  \E n \in {Len(frame)} \cup {c \in WriteCuts : c < Len(frame)} :
              /\ stdout' = stdout \o SubSeq(frame, 1, n)
              /\ unsent' = SubSeq(frame, n + 1, Len(frame))
              /\ fragmented' = (fragmented \/ n < Len(frame))
    /\ sent' = 1
    /\ UNCHANGED <<server_process, returncode, message_queue, reader,
                   listener, buffer, outcome, clientVars, observed, superseded,
                   corrupt, decode_error, streamVars, threadVars,
                   generationVars, elsewhere>>

\* each client with a server that answers and is killed at any moment: the loops
\* of lsp.py, and the loop of api/__init__.py
NextDeath ==
    \/ run_server
    \/ SendRequest
    \/ ServerReply
    \/ ServerFlush
    \/ ServerExit
    \/ ListenStdout
    \/ ListenMessage
    \/ StandardIO_run
    \/ Killed
    \/ Client_listen
    \/ StandardIO_terminate("listener")

\* the threads of the loops are daemon threads that run whenever they are not
\* blocked in a read, in queue.get() or in _run_event.wait(). The weak fairness
\* of ListenMessage is written out: the step is possible exactly when the
\* listener runs and the queue holds a chunk
SpecDeath ==
    /\ InitLSP
    /\ [][NextDeath]_vars
    /\ WF_vars(ListenStdout)
    /\ \/ []<>~(listener = "running" /\ message_queue # <<>>)
       \/ []<><<ListenMessage>>_vars
    /\ WF_vars(Client_listen)

\* ----------------------------------- Stream given several frames, or a bad header

\* header blocks are made of at most this many tokens
MaxHeaderTokens == 3

\* what a header block is made of: b"Content-Length: ", a digit, a letter, the
\* line ends b"\r\n" and b"\n", a byte that is not ASCII
HeaderTokens == {ContentLengthPrefix, <<49>>, <<88>>, <<CR, LF>>, <<LF>>, <<200>>}

RECURSIVE Join(_)
\* b"".join(parts)
Join(parts) == IF parts = <<>> THEN <<>> ELSE Head(parts) \o Join(Tail(parts))

Headers == {Join(tokens) : tokens \in SeqsUpTo(HeaderTokens, MaxHeaderTokens)}

\* a header block, the separator and a body of no or one byte
HeaderWires == {h \o separator \o b : h \in Headers, b \in {<<>>, <<97>>}}

\* a Stream that is about to receive the frames of two bodies in one chunk, or a
\* chunk with an arbitrary header block
InitFrames ==
    /\ \/ /\ batch \in {<<b1, b2>> : b1 \in Bodies, b2 \in Bodies}
          /\ wire \in {to_bytes(batch[1]) \o to_bytes(batch[2]),
                       wrap_rpc(batch[1]) \o wrap_rpc(batch[2])}
       \/ /\ batch = <<>>
          /\ wire \in HeaderWires
    /\ body = <<>>
    /\ buffer = <<>>
    /\ outcome = NoOutcome
    /\ gets = 0
    /\ puts = 0
    /\ IdleLSP

\* Stream.put(wire): the whole chunk in one call
PutAll ==
    /\ puts = 0
    /\ buffer' = buffer \o wire
    /\ puts' = 1
    /\ UNCHANGED <<body, wire, gets, batch, outcome, lspVars, elsewhere>>

\* Stream.get_content called once more: once per frame put, and once again
TakeContent ==
    /\ puts = 1
    /\ gets < Len(batch) + 1
    /\ LET r == get_content(buffer)
       IN  /\ outcome' = [kind |-> r.kind, content |-> r.content]
           /\ buffer' = r.buffer
    /\ gets' = gets + 1
    /\ UNCHANGED <<body, wire, puts, batch, lspVars, elsewhere>>

NextFrames == PutAll \/ TakeContent

SpecFrames == InitFrames /\ [][NextFrames]_vars

\* ------------------------------------- send_request called from two threads

\* thread t enters send_request(method); the calls are bounded by MaxRequests
Call(t) ==
    /\ threads[t].pc = "idle"
    /\ Len(assigned)
         + Cardinality({u \in Threads : threads[u].pc \in {"load", "store", "return"}})
         < MaxRequests
    /\ \E method \in Methods :
          threads' = [threads EXCEPT ![t] = [IdleThread EXCEPT !.pc = "load",
                                                               !.method = method]]
    /\ UNCHANGED <<ioVars, buffer, outcome, clientVars, historyVars, assigned,
                   streamVars, generationVars,
                   elsewhere>>

\* next_request_id, self.current_req_id += 1: the attribute is read ...
Load(t) ==
    /\ threads[t].pc = "load"
    /\ threads' = [threads EXCEPT ![t].pc = "store", ![t].loaded = current_req_id]
    /\ UNCHANGED <<ioVars, buffer, outcome, clientVars, historyVars, assigned,
                   streamVars, generationVars,
                   elsewhere>>

\* ... and the sum is stored
Store(t) ==
    /\ threads[t].pc = "store"
    /\ current_req_id' = threads[t].loaded + 1
    /\ threads' = [threads EXCEPT ![t].pc = "return"]
    /\ UNCHANGED <<ioVars, buffer, outcome, request_map, historyVars, assigned,
                   streamVars, generationVars,
                   elsewhere>>

\* next_request_id, return self.current_req_id: the attribute is read again
Return(t) ==
    /\ threads[t].pc = "return"
    /\ threads' = [threads EXCEPT ![t].pc = "cancel", ![t].request_id = current_req_id]
    /\ assigned' = Append(assigned, current_req_id)
    /\ UNCHANGED <<ioVars, buffer, outcome, clientVars, historyVars, streamVars, generationVars,
                   elsewhere>>

\* send_request: the loop that cancels the pending requests of the method
Cancel(t) ==
    /\ threads[t].pc = "cancel"
    /\ LET method == threads[t].method
           cancelled == to_cancel(method)
           ids == {cancelled[i] : i \in 1..Len(cancelled)}
       IN  IF cancelled = <<>> \/ Writable
           THEN /\ request_map' = Without(request_map, ids)
                /\ written' = [i \in 1..Len(cancelled) |->
                                  RPCMessage_cancel_request(cancelled[i])]
                /\ superseded' = superseded \cup ids
                /\ threads' = [threads EXCEPT ![t].pc = "register"]
                /\ UNCHANGED called
           ELSE \* the first send_message raises ServerOffline
                /\ request_map' = Without(request_map, {cancelled[1]})
                /\ written' = <<>>
                /\ superseded' = superseded \cup {cancelled[1]}
                /\ threads' = [threads EXCEPT ![t] = IdleThread]
                /\ called' = [op |-> "send_request", method |-> method,
                              id |-> threads[t].request_id, raised |-> "ServerOffline"]
    /\ handled' = <<>>
    /\ UNCHANGED <<ioVars, buffer, outcome, current_req_id, sent, corrupt, fragmented,
                   decode_error, assigned, streamVars, generationVars,
                   elsewhere>>

\* send_request: self.request_map[request_id] = method, then send_message
Register(t) ==
    /\ threads[t].pc = "register"
    /\ LET method == threads[t].method
           request_id == threads[t].request_id
       IN  /\ request_map' = (request_id :> method) @@ request_map
           /\ origin' = IF Writable THEN (request_id :> generation) @@ origin
                        ELSE origin
           /\ written' = IF Writable THEN <<RPCMessage_request(request_id, method)>>
                         ELSE <<>>
           /\ called' = [op |-> "send_request", method |-> method, id |-> request_id,
                         raised |-> IF Writable THEN None ELSE "ServerOffline"]
    /\ threads' = [threads EXCEPT ![t] = IdleThread]
    /\ handled' = <<>>
    /\ UNCHANGED <<ioVars, buffer, outcome, current_req_id, sent, corrupt, fragmented,
                   superseded, decode_error, assigned, streamVars, generation,
                   elsewhere>>

ThreadCall == \E t \in Threads : Call(t)
ThreadLoad == \E t \in Threads : Load(t)
ThreadStore == \E t \in Threads : Store(t)
ThreadReturn == \E t \in Threads : Return(t)
ThreadCancel == \E t \in Threads : Cancel(t)
ThreadRegister == \E t \in Threads : Register(t)

\* two threads call send_request, the steps of next_request_id interleaving
NextThreads ==
    \/ run_server
    \/ ServerExit
    \/ ThreadCall
    \/ ThreadLoad
    \/ ThreadStore
    \/ ThreadReturn
    \/ ThreadCancel
    \/ ThreadRegister

SpecThreads == InitLSP /\ [][NextThreads]_vars

\* ------------------- LSPClient.send_request statement by statement (lsp.py)

\* what a step of send_request leaves alone beside the registry, the
\* observations and its own position
besideRequest ==
    <<ioVars, buffer, outcome, sent, corrupt, fragmented, decode_error,
      streamVars, threadVars, generation, sessionVars, cppVars, apiVars, pipeVars,
      backoffVars, registryVars, restartVars>>

\* send_request raises: the call ends
SendRequestRaises(error) ==
    /\ called' = [op |-> "send_request", method |-> sending.method,
                  id |-> sending.request_id, raised |-> error]
    /\ sending' = IdleSending

\* send_request up to request_map_c = self.request_map.copy(): the id is taken
\* and the ids that the loop will cancel are those of the copy
CopyRequestMap ==
    /\ sending.pc = "idle"
    /\ current_req_id + 1 < MaxRequests
    /\ \E method \in Methods :
          sending' = [pc |-> "loop", method |-> method,
                      request_id |-> current_req_id + 1,
                      request_map_c |-> to_cancel(method), next |-> 1]
    /\ current_req_id' = current_req_id + 1
    /\ written' = <<>>
    /\ handled' = <<>>
    /\ UNCHANGED <<request_map, called, superseded, origin, stdin, besideRequest>>

\* cancel_request: self.request_map.pop(request_id), which raises KeyError when
\* the id has left request_map since the copy was made
PopRequest ==
    /\ sending.pc = "loop"
    /\ sending.next <= Len(sending.request_map_c)
    /\ LET req_id == sending.request_map_c[sending.next]
       IN  IF req_id \in DOMAIN request_map
           THEN /\ request_map' = Without(request_map, {req_id})
                /\ superseded' = superseded \cup {req_id}
                /\ sending' = [sending EXCEPT !.pc = "cancel"]
                /\ UNCHANGED called
           ELSE /\ SendRequestRaises("KeyError")
                /\ UNCHANGED <<request_map, superseded>>
    /\ written' = <<>>
    /\ handled' = <<>>
    /\ UNCHANGED <<current_req_id, origin, stdin, besideRequest>>

\* cancel_request: self.transport.send_message(message)
SendCancel ==
    /\ sending.pc = "cancel"
    /\ LET message == RPCMessage_cancel_request(sending.request_map_c[sending.next])
       IN  IF Writable
           THEN /\ written' = <<message>>
                /\ stdin' = Append(stdin, message)
                /\ sending' = [sending EXCEPT !.pc = "loop", !.next = @ + 1]
                /\ UNCHANGED called
           ELSE /\ SendRequestRaises("ServerOffline")
                /\ written' = <<>>
                /\ UNCHANGED stdin
    /\ handled' = <<>>
    /\ UNCHANGED <<clientVars, superseded, origin, besideRequest>>

\* send_request after the loop: self.request_map[request_id] = method
RegisterRequest ==
    /\ sending.pc = "loop"
    /\ sending.next > Len(sending.request_map_c)
    /\ request_map' = (sending.request_id :> sending.method) @@ request_map
    /\ sending' = [sending EXCEPT !.pc = "send"]
    /\ written' = <<>>
    /\ handled' = <<>>
    /\ UNCHANGED <<current_req_id, called, superseded, origin, stdin, besideRequest>>

\* send_request: self.transport.send_message(message), and the call returns
SendNewRequest ==
    /\ sending.pc = "send"
    /\ LET message == RPCMessage_request(sending.request_id, sending.method)
       IN  IF Writable
           THEN /\ written' = <<message>>
                /\ stdin' = Append(stdin, message)
                /\ origin' = (sending.request_id :> generation) @@ origin
                /\ SendRequestRaises(None)
           ELSE /\ SendRequestRaises("ServerOffline")
                /\ written' = <<>>
                /\ UNCHANGED <<stdin, origin>>
    /\ handled' = <<>>
    /\ UNCHANGED <<clientVars, superseded, besideRequest>>

\* the listen loop calls exec_message with the response to a pending request
ResolveResponse ==
    /\ listener = "running"
    /\ \E message \in InboundMessages :
          /\ "method" \notin DOMAIN message
          /\ is_response(message)
          /\ ExecMessage(message)
    /\ UNCHANGED <<server_process, returncode, unsent, stdout, message_queue,
                   reader, buffer, outcome, current_req_id, sent, corrupt, fragmented,
                   superseded, decode_error, streamVars, threadVars,
                   generationVars, elsewhere>>

\* the caller in send_request while the listen loop resolves responses
NextSupersede ==
    \/ run_server
    \/ ServerExit
    \/ CopyRequestMap
    \/ PopRequest
    \/ SendCancel
    \/ RegisterRequest
    \/ SendNewRequest
    \/ ResolveResponse

SpecSupersede == InitLSP /\ [][NextSupersede]_vars

\* ------------- send_message of the transports, called by two threads at once

\* calls of send_message the model follows
MaxFrames == 2

\* what a step of send_message leaves alone
besidePipe ==
    <<streamVars, buffer, outcome, lspVars, sessionVars, cppVars, apiVars, requestVars,
      backoffVars, registryVars, restartVars>>

\* StandardIO.send_message is entered by thread s and the frame is built:
\* message.to_bytes(), header and body in one bytes object, of a size up to
\* which a write to a pipe is atomic or above it
SendMessage(s) ==
    /\ senders[s].pc = "idle"
    /\ server_process # None
    /\ Len(issued) < MaxFrames
    /\ \E large \in BOOLEAN :
          senders' = [senders EXCEPT ![s] = [pc |-> "write", frame |-> Len(issued) + 1,
                                             large |-> large]]
    /\ issued' = Append(issued, Len(issued) + 1)
    /\ UNCHANGED <<pipe, besidePipe>>

\* self.server_process.stdin.write(bmessage) on the unbuffered pipe: the bytes
\* enter the pipe at once, or, for a frame above the atomic size, the first
\* part of them; no lock is held. When the child has exited the write raises
\* OSError, which send_message turns into ServerOffline
StdinWrite(s) ==
    /\ senders[s].pc = "write"
    /\ \/ /\ Writable
          /\ pipe' = Append(pipe, [frame |-> senders[s].frame, part |-> "whole"])
          /\ senders' = [senders EXCEPT ![s] = IdleSender]
       \/ /\ Writable
          /\ senders[s].large
          /\ pipe' = Append(pipe, [frame |-> senders[s].frame, part |-> "head"])
          /\ senders' = [senders EXCEPT ![s].pc = "rest"]
       \/ /\ ~Writable
          /\ senders' = [senders EXCEPT ![s] = IdleSender]
          /\ UNCHANGED pipe
    /\ UNCHANGED <<issued, besidePipe>>

\* the same write call transfers the rest of the frame, and send_message returns
StdinWriteRest(s) ==
    /\ senders[s].pc = "rest"
    /\ pipe' = IF Writable
               THEN Append(pipe, [frame |-> senders[s].frame, part |-> "tail"])
               ELSE pipe
    /\ senders' = [senders EXCEPT ![s] = IdleSender]
    /\ UNCHANGED <<issued, besidePipe>>

\* the caller thread and the listen loop send messages to a running child
NextPipe ==
    \/ run_server
    \/ ServerExit
    \/ \E s \in Senders : SendMessage(s)
    \/ \E s \in Senders : StdinWrite(s)
    \/ \E s \in Senders : StdinWriteRest(s)

SpecPipe == InitLSP /\ [][NextPipe]_vars

\* ------------------------------ restart back-off of the plugin (gotools.py)

\* run_server attempts the model follows
MaxAttempts == 6
\* steps of one second the clock makes beside its jumps to next_check
MaxTicks == 2

\* what a step of the back-off leaves alone
besideBackoff ==
    <<streamVars, buffer, outcome, lspVars, sessionVars, cppVars, apiVars, requestVars,
      pipeVars, registryVars, restartVars>>

\* CancelRunServer.is_canceled at time t: what it returns and what it leaves
is_canceled(c, t) ==
    IF c.next_check = Nothing THEN [returns |-> FALSE, self |-> c]
    ELSE IF t >= c.next_check[1] THEN [returns |-> FALSE, self |-> c]
    ELSE [returns |-> TRUE,
          self |-> IF c.exp_base > 5 THEN CancelRunServer_reset ELSE c]

\* the delay CancelRunServer.cancel computes
cancel_delay(c) == 10 ^ c.exp_base

\* CancelRunServer.cancel at time t
cancel(c, t) ==
    [next_check |-> Some(t + cancel_delay(c)), exp_base |-> c.exp_base + 1]

\* EventListener.on_query_completions_task when textDocument_completion has
\* raised ServerOffline: nothing more while is_canceled() holds, else
\* _run_server, whose GOPLS_CLIENT.run_server() returns or raises
on_query_completions_task ==
    /\ attempts.count < MaxAttempts
    /\ LET checked == is_canceled(CANCEL_RUN_SERVER, now)
           scheduled == cancel(checked.self, now)
           delay == cancel_delay(checked.self)
       IN  IF checked.returns
           THEN /\ CANCEL_RUN_SERVER' = checked.self
                /\ UNCHANGED attempts
           ELSE \/ \* run_server raises: logged
                   /\ CANCEL_RUN_SERVER' = scheduled
                   /\ attempts' = [attempts EXCEPT !.count = @ + 1,
                                                   !.failures = @ + 1,
                                                   !.delay = delay,
                                                   !.not_before = scheduled.next_check]
                \/ \* run_server returns: reset(), initialize
                   /\ CANCEL_RUN_SERVER' = CancelRunServer_reset
                   /\ attempts' = [attempts EXCEPT !.count = @ + 1,
                                                   !.failures = 0,
                                                   !.delay = delay,
                                                   !.not_before = Nothing]
    /\ UNCHANGED <<now, besideBackoff>>

\* a second passes, or the time up to next_check
Tick ==
    /\ \/ /\ attempts.ticks < MaxTicks
          /\ now' = now + 1
          /\ attempts' = [attempts EXCEPT !.ticks = @ + 1]
       \/ /\ CANCEL_RUN_SERVER.next_check # Nothing
          /\ now < CANCEL_RUN_SERVER.next_check[1]
          /\ now' = CANCEL_RUN_SERVER.next_check[1]
          /\ UNCHANGED attempts
    /\ UNCHANGED <<CANCEL_RUN_SERVER, besideBackoff>>

\* completions are queried while the server is offline
NextBackoff == on_query_completions_task \/ Tick

SpecBackoff == InitLSP /\ [][NextBackoff]_vars

\* ------------------------- Client of api/__init__.py, its registry and lock

\* what a step of the Client leaves alone beside its transport, its registry
\* and the observations
besideRegistry ==
    <<streamVars, buffer, outcome, ioVars, clientVars, sent, corrupt, fragmented,
      superseded, decode_error, threadVars, generationVars, sessionVars, cppVars,
      terminating, writer, client_listener, requestVars, pipeVars, backoffVars,
      restartVars>>

\* a response that is a result whatever the error
Client_response_result(id, result, error) ==
    [jsonrpc |-> "2.0", id |-> id, result |-> result]

\* RPCMessage.response of api/__init__.py, with the jsonrpc member dumps adds
Client_response(id, result, error) ==
    IF error # Nothing
    THEN [jsonrpc |-> "2.0", id |-> id, error |-> error[1]]
    ELSE [jsonrpc |-> "2.0", id |-> id, result |-> result]

\* RPCMessage.exception_to_message
exception_to_message == [code |-> 1]

\* what StandardIO.write does once _run_event is set: stdin is a BytesIO when
\* _process is None, the pipe of the child otherwise, broken once it has exited
write_outcome ==
    IF process = None THEN "lost"
    ELSE IF process = "alive" THEN "written" ELSE "BrokenPipeError"

\* Client.run_server and Client.listen: Popen, _run_event.set(), and the thread
\* of _listen is started
Client_run ==
    /\ ~StandardIO_is_running
    /\ \A t \in ClientThreads : control[t].pc \in {"idle", "returned"}
    /\ process' = "alive"
    /\ run_event' = TRUE
    /\ control' = [control EXCEPT !["listener"] = [IdleControl EXCEPT !.pc = "read"]]
    /\ UNCHANGED <<registry, request_map_lock, observed, besideRegistry>>

\* the child exits or is killed from outside
Client_child_exit ==
    /\ process = "alive"
    /\ process' = "exited"
    /\ UNCHANGED <<run_event, registryVars, observed, besideRegistry>>

\* Client.send_request is called by the caller thread, which now waits for
\* _request_map_lock
Client_send_request ==
    /\ control["caller"].pc = "idle"
    /\ registry.temp_request_id + 1 < MaxRequests
    /\ \E method \in Methods :
          control' = [control EXCEPT !["caller"] =
                         [IdleControl EXCEPT !.pc = "acquire", !.method = method]]
    /\ UNCHANGED <<process, run_event, registry, request_map_lock, observed,
                   besideRegistry>>

\* send_request in thread t takes the lock, marks the pending requests of the
\* method as cancelled and takes the new id; it is then in send_message
Client_mark_canceled(t) ==
    /\ control[t].pc = "acquire"
    /\ request_map_lock = Nothing
    /\ request_map_lock' = Some(t)
    /\ registry' =
          [registry EXCEPT
              !.canceled_requests =
                  @ \cup {i \in DOMAIN registry.request_map :
                              registry.request_map[i] = control[t].method},
              !.temp_request_id = @ + 1]
    /\ control' = [control EXCEPT ![t].pc = "write",
                                  ![t].id = registry.temp_request_id + 1]
    /\ UNCHANGED <<process, run_event, observed, besideRegistry>>

\* send_request in thread t: StandardIO.write passes _run_event.wait() and
\* writes; then the request is registered; the lock is released either way
Client_write_request(t) ==
    /\ control[t].pc = "write"
    /\ run_event
    /\ request_map_lock' = Nothing
    /\ control' = [control EXCEPT ![t] = IdleControl]
    /\ handled' = <<>>
    /\ IF write_outcome = "BrokenPipeError"
       THEN /\ called' = [op |-> "send_request", method |-> control[t].method,
                          id |-> control[t].id, raised |-> "BrokenPipeError"]
            /\ written' = <<>>
            /\ UNCHANGED registry
       ELSE /\ called' = [op |-> "send_request", method |-> control[t].method,
                          id |-> control[t].id, raised |-> None]
            /\ written' = IF write_outcome = "written"
                          THEN <<RPCMessage_request(control[t].id, control[t].method)>>
                          ELSE <<>>
            /\ registry' = [registry EXCEPT !.request_map =
                                (control[t].id :> control[t].method) @@ @]
    /\ UNCHANGED <<process, run_event, besideRegistry>>

\* Client.terminate_server is called by the caller thread
Client_terminate ==
    /\ control["caller"].pc = "idle"
    /\ control' = [control EXCEPT !["caller"].pc = "terminate"]
    /\ UNCHANGED <<process, run_event, registry, request_map_lock, observed,
                   besideRegistry>>

\* terminate_server in thread t: self.transport.terminate() clears _run_event,
\* kills the child and forgets it
Client_transport_terminate(t) ==
    /\ control[t].pc = "terminate"
    /\ run_event' = FALSE
    /\ process' = None
    /\ control' = [control EXCEPT ![t].pc = "reset"]
    /\ UNCHANGED <<registry, request_map_lock, observed, besideRegistry>>

\* terminate_server in thread t: self._reset_state() under the lock; the caller
\* returns, the loop of _listen breaks
Client_reset(t) ==
    /\ control[t].pc = "reset"
    /\ request_map_lock = Nothing
    /\ registry' = Client_reset_state
    /\ control' = [control EXCEPT ![t] =
                      [IdleControl EXCEPT !.pc = IF t = "listener" THEN "returned"
                                                ELSE "idle"]]
    /\ UNCHANGED <<process, run_event, request_map_lock, observed, besideRegistry>>

\* what the handler of method does when Client calls BaseHandler.handle: it
\* returns or raises; without a handle_ method MethodNotFound is raised
HandleOutcomes(method) ==
    IF method \in command_map THEN {"return", "raise"} ELSE {"raise"}

\* the step dispatches message in Client.handle_message and leaves the
\* listener at pc
Handles(message, invoked, pc) ==
    /\ called' = [op |-> "handle_message", message |-> message, raised |-> None]
    /\ handled' = invoked
    /\ written' = <<>>
    /\ control' = [control EXCEPT !["listener"].pc = pc]

\* one turn of the loop of Client._listen: transport.read() passes
\* _run_event.wait(); with no running child stdout is an empty BytesIO and
\* EOFError breaks the loop. A notification is handled and what its handler
\* raises is logged; a request is handled and its response is then to be sent;
\* a response goes to handle_response; RPCMessage.load raises for another
\* payload, which calls terminate_server
Client_read ==
    /\ control["listener"].pc = "read"
    /\ run_event
    /\ IF ~StandardIO_is_running
       THEN /\ control' = [control EXCEPT !["listener"].pc = "returned"]
            /\ called' = [op |-> "read", raised |-> "EOFError"]
            /\ handled' = <<>>
            /\ written' = <<>>
       ELSE \/ \E message \in InboundMessages :
                 \E h \in HandleOutcomes(Get(message, "method")) :
                    LET invoked ==
                            IF Get(message, "method") \in command_map
                            THEN <<[method |-> message["method"],
                                    message |-> message, outcome |-> h]>>
                            ELSE <<>>
                    IN  \/ /\ "method" \in DOMAIN message
                           /\ "id" \notin DOMAIN message
                           /\ Handles(message, invoked, "read")
                        \/ /\ "method" \in DOMAIN message
                           /\ "id" \in DOMAIN message
                           /\ called' = [op |-> "handle_message", message |-> message,
                                         raised |-> None]
                           /\ handled' = invoked
                           /\ written' = <<>>
                           /\ control' = [control EXCEPT !["listener"] =
                                   [IdleControl EXCEPT !.pc = "respond",
                                                       !.id = message["id"],
                                                       !.error = (h = "raise")]]
                        \/ /\ "method" \notin DOMAIN message
                           /\ h = "raise"
                           /\ control' = [control EXCEPT !["listener"] =
                                   [IdleControl EXCEPT !.pc = "resolve",
                                                       !.id = message["id"]]]
                           /\ called' = [op |-> "handle_message", message |-> message,
                                         raised |-> None]
                           /\ handled' = <<>>
                           /\ written' = <<>>
            \/ /\ control' = [control EXCEPT !["listener"].pc = "terminate"]
               /\ called' = [op |-> "load", raised |-> "ValueError"]
               /\ handled' = <<>>
               /\ written' = <<>>
    /\ UNCHANGED <<process, run_event, registry, request_map_lock, besideRegistry>>

\* handle_request: self.send_response(message["id"], result, error), outside
\* the try; a write that raises leaves handle_message and _listen calls
\* terminate_server
Client_send_response ==
    /\ control["listener"].pc = "respond"
    /\ run_event
    /\ LET id == control["listener"].id
           response ==
               IF control["listener"].error
               THEN Client_response(id, Nothing, Some(exception_to_message))
               ELSE Client_response(id, Some(1), Nothing)
       IN  /\ written' = IF write_outcome = "written" THEN <<response>> ELSE <<>>
           /\ called' = [op |-> "send_response", id |-> id,
                         raised |-> IF write_outcome = "BrokenPipeError"
                                    THEN "BrokenPipeError" ELSE None]
    /\ handled' = <<>>
    /\ control' = [control EXCEPT !["listener"] =
                      [IdleControl EXCEPT !.pc = IF write_outcome = "BrokenPipeError"
                                                THEN "terminate" ELSE "read"]]
    /\ UNCHANGED <<process, run_event, registry, request_map_lock, besideRegistry>>

\* Client.handle_response under the lock: the id is popped; a cancelled id is
\* dropped; else the handler of the method is called with the message and what
\* it raises is logged. A handler that calls send_request does so while the
\* lock is held
Client_handle_response ==
    /\ control["listener"].pc = "resolve"
    /\ request_map_lock = Nothing
    /\ LET id == control["listener"].id
           method == IF id \in DOMAIN registry.request_map
                     THEN registry.request_map[id] ELSE "unknown"
           message == [jsonrpc |-> "2.0", id |-> id, result |-> 1]
       IN  /\ called' = [op |-> "handle_response", message |-> message,
                         raised |-> None]
           /\ written' = <<>>
           /\ registry' =
                 [registry EXCEPT
                     !.request_map = Without(@, {id}),
                     !.canceled_requests = @ \ {id}]
           /\ IF id \in registry.canceled_requests \/ method = "unknown"
              THEN /\ handled' = <<>>
                   /\ control' = [control EXCEPT !["listener"] =
                                     [IdleControl EXCEPT !.pc = "read"]]
                   /\ UNCHANGED request_map_lock
              ELSE \E h \in {"return", "raise", "send_request"} :
                      /\ handled' = <<[method |-> method, message |-> message,
                                       outcome |-> h]>>
                      /\ IF h = "send_request"
                         THEN /\ request_map_lock' = Some("listener")
                              /\ control' = [control EXCEPT !["listener"] =
                                      [IdleControl EXCEPT !.pc = "acquire",
                                                          !.method = method]]
                         ELSE /\ UNCHANGED request_map_lock
                              /\ control' = [control EXCEPT !["listener"] =
                                      [IdleControl EXCEPT !.pc = "read"]]
    /\ UNCHANGED <<process, run_event, besideRegistry>>

\* a Client with a caller thread and its listen thread
NextClient ==
    \/ Client_run
    \/ Client_child_exit
    \/ Client_send_request
    \/ Client_terminate
    \/ \E t \in ClientThreads : Client_mark_canceled(t)
    \/ \E t \in ClientThreads : Client_write_request(t)
    \/ \E t \in ClientThreads : Client_transport_terminate(t)
    \/ \E t \in ClientThreads : Client_reset(t)
    \/ Client_read
    \/ Client_send_response
    \/ Client_handle_response

SpecClient == InitLSP /\ [][NextClient]_vars

\* ------------------------------------------------------- claims C3 to C10

\* the $/cancelRequest notifications among the messages written
Cancels(messages) ==
    SelectSeq(messages, LAMBDA m : Get(m, "method") = "$/cancelRequest")

\* at most one pending id per method
OnePerMethod == \A m \in Methods : Cardinality(Pending(m)) <= 1

\* a send_request call that returns, made while request i of its method is pending,
\* writes exactly one $/cancelRequest, the one for i, and leaves its own id as the
\* only pending id of the method
SupersessionStep ==
    \A i \in DOMAIN request_map :
        ( /\ current_req_id' = current_req_id + 1
          /\ called'.op = "send_request"
          /\ called'.raised = None
          /\ called'.method = request_map[i] )
        => /\ Cancels(written') = <<RPCMessage_cancel_request(i)>>
           /\ {j \in DOMAIN request_map' : request_map'[j] = request_map[i]}
                = {current_req_id'}

\* C3: request supersession. When a request of method m with id i is pending and
\* send_request(m) is called again and returns, exactly one $/cancelRequest with
\* params {id: i} is written and request_map then holds the new id for m and no
\* other id of m; at all times request_map holds at most one id per method.
C3_RequestSupersession == []OnePerMethod /\ [][SupersessionStep]_vars

\* a second request of a method has been sent and the first one cancelled
C3_Witness ==
    /\ called.op = "send_request"
    /\ called.raised = None
    /\ called.id = 1
    /\ written = <<RPCMessage_cancel_request(0), RPCMessage_request(1, called.method)>>
    /\ DOMAIN request_map = {1}

\* the last dispatch was of the message kind given by has_id, has_method
Dispatched(has_id, has_method) ==
    /\ called.op = "exec_message"
    /\ ("id" \in DOMAIN called.message) = has_id
    /\ ("method" \in DOMAIN called.message) = has_method

\* C4: response correlation after supersession. A response that carries the id of
\* a request superseded by a later send_request of the same method invokes no
\* handler, and the listen loop keeps running (exec_message lets no exception
\* through).
C4_SupersededResponseIgnored ==
    (Dispatched(TRUE, FALSE) /\ called.message["id"] \in superseded)
        => handled = <<>> /\ called.raised = None

\* the ids come out of next_request_id in strictly increasing order
StrictlyIncreasing ==
    \A i, j \in 1..Len(assigned) : i < j => assigned[i] < assigned[j]

\* a thread that registers its request does not replace an entry of request_map
NoOverwrite ==
    \A t \in Threads :
        (threads[t].pc = "register" /\ threads'[t].pc = "idle")
            => threads[t].request_id \notin DOMAIN request_map

\* C5: the ids send_request assigns are strictly increasing in assignment order
\* and pairwise distinct, also when two threads call send_request at once, and
\* no request replaces the registry entry of another.
C5_RequestIdsDistinct == []StrictlyIncreasing /\ [][NoOverwrite]_vars

\* C6: unknown inbound method. Dispatching a message that has an id and a method
\* without a registered handler writes exactly one error response carrying that
\* id (the transport taking the write) and invokes no handler.
C6_UnknownMethodAnswered ==
    ( /\ Dispatched(TRUE, TRUE)
      /\ called.message["method"] \notin command_map
      /\ called.raised = None )
    => /\ Len(written) = 1
       /\ written[1]["id"] = called.message["id"]
       /\ "error" \in DOMAIN written[1]
       /\ handled = <<>>

\* C7: every inbound request (a message with method and id) is answered with
\* exactly one response carrying its id: a result when the handler returns, an
\* error when the handler raises or none is registered.
C7_EveryRequestAnswered ==
    (Dispatched(TRUE, TRUE) /\ called.raised = None)
    => /\ Len(written) = 1
       /\ written[1]["id"] = called.message["id"]
       /\ IF handled # <<>> /\ handled[1].outcome = "return"
          THEN "result" \in DOMAIN written[1] /\ "error" \notin DOMAIN written[1]
          ELSE "error" \in DOMAIN written[1]

\* C8: cancel_request(id) removes a pending id and writes one $/cancelRequest;
\* for an id that is not pending it is a no-op that raises nothing.
C8_CancelRequestSafe ==
    called.op = "cancel_request"
    => /\ called.raised # "KeyError"
       /\ called.id \notin DOMAIN request_map
       /\ called.raised = None =>
             written \in {<<>>, <<RPCMessage_cancel_request(called.id)>>}

\* C9: is_running() is true if and only if a process has been spawned and has
\* not exited, whatever the exit status.
C9_IsRunningIffAlive ==
    is_running <=> (server_process # None /\ returncode = Nothing)

\* C10: once the listen loop has met bytes it cannot decode (a header block
\* without Content-Length, a body that is no JSON-RPC 2.0 message; the frames
\* arriving whole, so that only a corrupt frame is undecodable), the server is
\* terminated and the loop has stopped.
C10_CorruptInputTerminates ==
    (corrupt /\ ~fragmented /\ decode_error # None)
        => returncode # Nothing /\ listener \in {"returned", "crashed"}

\* ------------------------------------------------------ claims C11 to C20

\* the pending requests that were written to a child process were written to
\* the one that runs now
NoStaleEntry ==
    \A i \in DOMAIN request_map \cap DOMAIN origin : origin[i] = generation

\* the $/cancelRequest notifications written name requests of this generation
NoStaleCancel ==
    \A k \in 1..Len(Cancels(written)) :
        LET i == Cancels(written)[k].params.id
        IN  i \in DOMAIN origin => origin[i] = generation

\* C12: once a new server process has been started, request_map holds no entry
\* of a request written to an earlier process, and no $/cancelRequest is written
\* for such a request.
C12_NoStaleRequests == NoStaleEntry /\ NoStaleCancel

\* names of the methods of Commands that need an initialized session
GuardedOps ==
    {"textDocument_didOpen", "textDocument_didChange", "textDocument_didClose",
     "textDocument_hover"}

\* the call made by this step ended as c, and was one that needs a session
IsGuardedCall(c) ==
    \/ c.op \in GuardedOps
    \/ c.op = "send_request" /\ c.method # "initialize"

\* C15: while the session is not initialized, a guarded document operation raises
\* NotInitialized, writes nothing and leaves the documents, the request registry
\* and the id counter as they were; initialize, initialized and exit never raise
\* NotInitialized.
C15_NotInitializedRejected ==
    [][ /\ (~is_initialized /\ called' # called /\ IsGuardedCall(called')) =>
               /\ called'.raised = "NotInitialized"
               /\ written' = <<>>
               /\ UNCHANGED <<documents, request_map, current_req_id>>
        /\ called'.raised = "NotInitialized" =>
               /\ called'.op \in GuardedOps
               /\ ~is_initialized ]_vars

\* a document operation is rejected after exit(), with the server still running
C15_Witness ==
    /\ called.raised = "NotInitialized"
    /\ documents # EmptyMap
    /\ Writable

\* the initialized notification is among the messages w
InitializedWritten(w) ==
    \E k \in 1..Len(w) : "method" \in DOMAIN w[k] /\ w[k].method = "initialized"

\* this step is exec_message called with a response that carries a result, not an
\* error, and whose id is the id of a pending initialize request
InReactionToSuccess ==
    /\ called'.op = "exec_message"
    /\ LET message == called'.message
       IN  /\ "id" \in DOMAIN message
           /\ message.id \in DOMAIN request_map
           /\ request_map[message.id] = "initialize"
           /\ "result" \in DOMAIN message
           /\ "error" \notin DOMAIN message

\* C16: the initialized notification is written, and the session becomes
\* initialized, only in a step that handles a successful response to a pending
\* initialize request; the session does not become initialized unless the
\* notification was written; handling an error response writes no initialized
\* notification and leaves the session as it was.
C16_InitializeHandshake ==
    [][ /\ ((called' # called \/ written' # written) /\ InitializedWritten(written'))
               => InReactionToSuccess
        /\ (is_initialized' /\ ~is_initialized)
               => InReactionToSuccess /\ InitializedWritten(written')
        /\ (called' # called /\ called'.op = "exec_message"
                /\ "error" \in DOMAIN called'.message)
               => ~InitializedWritten(written') /\ UNCHANGED is_initialized ]_vars

\* the response to initialize has been handled and the session is initialized
C16_Witness ==
    /\ is_initialized
    /\ called.op = "exec_message"
    /\ InitializedWritten(written)

InsideLock == {t \in Threads : caller[t] \in {"locked", "spawn", "release"}}

\* C14: at most one thread is between the is_running test and the spawn; every
\* child spawned is the one that runs or has stopped, so no two children exist
\* at once; and when a call has returned and no child has stopped, the
\* transport's run_server was invoked exactly once.
C14_SingleSpawn ==
    /\ Cardinality(InsideLock) <= 1
    /\ spawned = stopped + (IF transport_is_running THEN 1 ELSE 0)
    /\ ((\E t \in Threads : caller[t] = "returned") /\ stopped = 0) => spawned = 1

\* both threads have called run_server at once and have returned
C14_Witness ==
    /\ \A t \in Threads : caller[t] = "returned"
    /\ stopped = 0
    /\ spawned = 1

\* C17: ready() is true only when the server runs and the initialize handshake
\* was completed with the child that runs now.
C17_ReadyAfterHandshake == ready => initialized_with = spawned

\* C13: no call of terminate raises, and when the calls have returned the
\* process handle is released and is_running() is false.
C13_TerminateIdempotent ==
    /\ \A t \in Terminators : terminating[t] # "AttributeError"
    /\ (\A t \in Terminators : terminating[t] = "returned")
           => process = None /\ ~StandardIO_is_running

\* C18: a caller of write is never held at _run_event.wait(), and a write that
\* returns has written to the pipe of a child.
C18_WriteFailsFast ==
    /\ ~(writer = "waiting" /\ ~run_event)
    /\ writer # "lost"

\* C19: multi-frame batching. After one put of the frames of b1 and b2, the first
\* get_content returns b1, the second returns b2 and leaves the buffer empty, and
\* a third signals 'incomplete'.
C19_MultiFrameBatching ==
    (batch # <<>> /\ puts = 1) =>
        /\ gets = 1 => outcome = [kind |-> "content", content |-> batch[1]]
        /\ gets = 2 => /\ outcome = [kind |-> "content", content |-> batch[2]]
                       /\ buffer = <<>>
        /\ gets = 3 => outcome.kind \in Incomplete /\ buffer = <<>>

\* two different bodies have been taken and the third call has been made
C19_Witness ==
    /\ batch # <<>>
    /\ gets = 3
    /\ batch[1] # <<>>
    /\ batch[1] # batch[2]
    /\ outcome.kind = "EOFError"

\* the bytes before the first separator
HeaderRegion(bytes) == Slice(bytes, 0, Index(bytes, separator))

RECURSIVE Lines(_)
\* the lines of a byte string, a line ending at each b"\n"
Lines(bytes) ==
    IF Occurrences(bytes, <<LF>>) = {} THEN <<bytes>>
    ELSE LET i == Index(bytes, <<LF>>)
         IN  <<Slice(bytes, 0, i)>> \o Lines(SliceFrom(bytes, i + 1))

\* a line of the form Content-Length: <digits>
IsContentLengthLine(line) ==
    /\ Len(line) > Len(ContentLengthPrefix)
    /\ SubSeq(line, 1, Len(ContentLengthPrefix)) = ContentLengthPrefix
    /\ IsDigit(line[Len(ContentLengthPrefix) + 1])

\* the buffered bytes hold the separator and no Content-Length line before it
HeaderCorrupt(bytes) ==
    /\ Occurrences(bytes, separator) # {}
    /\ \A i \in 1..Len(Lines(HeaderRegion(bytes))) :
          ~IsContentLengthLine(Lines(HeaderRegion(bytes))[i])

\* C20: header corruption. When the buffered bytes hold the separator and the
\* header region before it has no line of the form Content-Length: <digits>,
\* get_content raises InvalidMessage and the buffer is emptied.
C20_HeaderCorruption ==
    (puts = 1 /\ gets = 1 /\ HeaderCorrupt(wire))
        => outcome.kind = "InvalidMessage" /\ buffer = <<>>

\* a header block that names Content-Length without a digit has been refused
C20_Witness ==
    /\ puts = 1 /\ gets = 1
    /\ HeaderCorrupt(wire)
    /\ HeaderRegion(wire) = ContentLengthPrefix \o <<88>>
    /\ outcome.kind = "InvalidMessage"

\* ------------------------------------------------------ claims C21 to C30

\* the responses among the messages written: an id and no method
IsResponseMessage(m) == "id" \in DOMAIN m /\ "method" \notin DOMAIN m

\* C21: every response written carries exactly one of result and error.
C21_ResultXorError ==
    \A k \in 1..Len(written) :
        IsResponseMessage(written[k])
            => (("result" \in DOMAIN written[k]) # ("error" \in DOMAIN written[k]))

\* the payloads whose jsonrpc member is absent or is not "2.0"
NotVersion2 == {d \in WireDicts : Get(d, "jsonrpc") # "2.0"}

\* C22: every message written carries jsonrpc "2.0"; the message handed to
\* exec_message carries jsonrpc "2.0"; from_bytes and load reject the payloads
\* whose jsonrpc member is absent or different.
C22_JsonRpcVersion ==
    /\ \A k \in 1..Len(written) : Get(written[k], "jsonrpc") = "2.0"
    /\ called.op = "exec_message" => Get(called.message, "jsonrpc") = "2.0"
    /\ \A d \in NotVersion2 :
           from_bytes(WireTexts[d]) = Nothing /\ load(WireTexts[d]) = Nothing

\* a message of the server was dispatched and answered
C22_Witness ==
    /\ called.op = "exec_message"
    /\ written # <<>>
    /\ NotVersion2 # {}

\* C23: a get_content call on buffered bytes that hold no separator signals
\* 'incomplete' and leaves the buffer as it was.
C23_PartialHeaderRetained ==
    [][ (gets' = gets + 1 /\ buffer # <<>> /\ Index(buffer, separator) < 0)
            => (outcome'.kind \in Incomplete /\ buffer' = buffer) ]_vars


\* C24: every complete frame that has reached the Stream of the listen loop is
\* dispatched before the loop waits for the next chunk of the queue: whenever
\* the loop is blocked on an empty queue, no complete frame is left in the buffer.
C24_CompleteFramesDispatched ==
    (listener = "running" /\ message_queue = <<>>)
        => get_content(buffer).kind # "content"


\* the step is a dispatch by exec_message of a message with an id, with or
\* without a method
DispatchStep(has_method) ==
    /\ called'.op = "exec_message"
    /\ "id" \in DOMAIN called'.message
    /\ ("method" \in DOMAIN called'.message) = has_method

\* C25: an inbound message with both method and id is dispatched as a request
\* of the server: every handler called is the one of the message's own method,
\* also when the id equals the id of a pending request, and request_map is
\* left as it was.
C25_ServerRequestDispatch ==
    [][ DispatchStep(TRUE)
            => /\ request_map' = request_map
               /\ \A k \in 1..Len(handled') :
                      handled'[k].method = called'.message["method"] ]_vars

\* C26: a response whose id is not in request_map is only logged: nothing is
\* written and request_map is left as it was.
C26_UnknownResponseLogged ==
    [][ (DispatchStep(FALSE) /\ called'.message["id"] \notin DOMAIN request_map)
            => written' = <<>> /\ request_map' = request_map ]_vars


\* exec_message has called exactly the handler of method with the whole
\* message
CalledOnce(method) ==
    /\ Len(handled') = 1
    /\ handled'[1].method = method
    /\ handled'[1].message = called'.message

\* the entry of id has left request_map and the other entries are as before
Removed(id) ==
    /\ DOMAIN request_map' = DOMAIN request_map \ {id}
    /\ \A j \in DOMAIN request_map' : request_map'[j] = request_map[j]

\* C28: a response whose id is pending is dispatched exactly once, to the
\* handler of the method recorded for the id and with the whole response, and
\* the entry is removed; a response whose id is not pending (a second response
\* with the same id among them) invokes no handler.
C28_PendingResponseOnce ==
    [][ (Dispatch /\ IsResponseMessage(called'.message))
            => IF called'.message["id"] \in DOMAIN request_map
               THEN /\ CalledOnce(request_map[called'.message["id"]])
                    /\ Removed(called'.message["id"])
               ELSE handled' = <<>> /\ request_map' = request_map ]_vars

\* the response to a pending request has been dispatched to its handler and
\* the request is no longer pending
C28_Witness ==
    /\ Dispatched(TRUE, FALSE)
    /\ Len(handled) = 1
    /\ handled[1].method \in Methods
    /\ handled[1].message = called.message
    /\ called.message["id"] <= current_req_id
    /\ called.message["id"] \notin DOMAIN request_map


\* C27: the registry operations are atomic with respect to each other: a
\* send_request call that runs while the listen loop resolves the response of a
\* pending request of the same method does not fail on the registry.
C27_RegistryAtomic ==
    ~(called.op = "send_request" /\ called.raised = "KeyError")


\* the $/cancelRequest of an id is written when the id has left request_map
RemovedBeforeCancel ==
    SendCancel
        => sending.request_map_c[sending.next] \notin DOMAIN request_map

\* when the new request is written, the $/cancelRequest of every id the call
\* superseded is on stdin already, the request is not, and none of the ids is
\* in request_map
CancelsBeforeRequest ==
    (SendNewRequest /\ called'.raised = None)
        => /\ \A i \in 1..Len(sending.request_map_c) :
                 /\ \E k \in 1..Len(stdin) :
                        stdin[k] = RPCMessage_cancel_request(sending.request_map_c[i])
                 /\ sending.request_map_c[i] \notin DOMAIN request_map
           /\ \A k \in 1..Len(stdin) :
                 stdin[k] # RPCMessage_request(sending.request_id, sending.method)
           /\ stdin' = Append(stdin, RPCMessage_request(sending.request_id, sending.method))

\* C29: when send_request supersedes pending requests of its method, each
\* superseded id is removed from request_map before its $/cancelRequest is
\* written, and all those notifications are written before the new request.
C29_CancelBeforeRequest == [][RemovedBeforeCancel /\ CancelsBeforeRequest]_vars

\* a second request of a method has been written after the $/cancelRequest of
\* the first
C29_Witness ==
    /\ called.op = "send_request"
    /\ called.raised = None
    /\ called.id = 1
    /\ stdin = <<RPCMessage_request(0, called.method), RPCMessage_cancel_request(0),
                 RPCMessage_request(1, called.method)>>
    /\ DOMAIN request_map = {1}


\* the bytes of each frame are next to each other in the pipe
Contiguous ==
    \A k \in 1..Len(pipe) :
        /\ pipe[k].part = "head" /\ k < Len(pipe)
              => pipe[k + 1] = [frame |-> pipe[k].frame, part |-> "tail"]
        /\ pipe[k].part = "tail"
              => k > 1 /\ pipe[k - 1] = [frame |-> pipe[k].frame, part |-> "head"]

\* the frames start in the pipe in the order of the send_message calls
InIssueOrder ==
    \A j, k \in 1..Len(pipe) :
        (j < k /\ pipe[j].part # "tail" /\ pipe[k].part # "tail")
            => pipe[j].frame < pipe[k].frame

\* C30: frames written by the caller thread and by the listen loop never
\* interleave on the child's stdin: header and body of each frame are
\* contiguous, and the frames appear in the order the sends were issued.
C30_FramesNotInterleaved == Contiguous /\ InIssueOrder


\* ------------------------------- run_server called again (api/lsp.py)
\* LSPClient.run_server and StandardIO.run_server have no guard: every call
\* spawns a child and starts one more _listen_stdout and one more
\* _listen_message thread, and all of them share the one message_queue that
\* LSPClient.__init__ handed to the transport.

\* what a step of these threads leaves alone
besideRespawn ==
    <<streamVars, buffer, outcome, lspVars, sessionVars, cppVars, apiVars, requestVars,
      pipeVars, backoffVars, registryVars>>

\* the child that StandardIO.server_process names: the last one spawned
current_process == Len(children)

\* the frames all children have written so far
RECURSIVE WrittenUpTo(_)
WrittenUpTo(p) == IF p = 0 THEN 0 ELSE children[p].wrote + WrittenUpTo(p - 1)

\* the buffer _listen_stdout puts when read() returned nothing
EmptyBuffer == ""

\* LSPClient.run_server, called when no child runs: the first call, or a call
\* after the child before has died or was shut down
LSPClient_run_server ==
    /\ Len(children) < MaxGenerations
    /\ children # <<>> => ~children[current_process].alive
    /\ children' = Append(children, [alive |-> TRUE, stdout |-> 0, wrote |-> 0])
    /\ stdout_threads' =
           Append(stdout_threads, [pc |-> "read", reads |-> Len(children) + 1])
    /\ message_threads' = Append(message_threads, [pc |-> "get", message |-> Nothing])
    /\ UNCHANGED <<receiver, besideRespawn>>

\* child p writes a frame to its stdout
ChildWrite(p) ==
    /\ children[p].alive
    /\ WrittenUpTo(current_process) < MaxInbound
    /\ children' = [children EXCEPT ![p].stdout = @ + 1, ![p].wrote = @ + 1]
    /\ UNCHANGED <<stdout_threads, message_threads, receiver, besideRespawn>>

\* child p dies or is terminated; what it wrote stays in the pipe
ChildExit(p) ==
    /\ children[p].alive
    /\ children' = [children EXCEPT ![p].alive = FALSE]
    /\ UNCHANGED <<stdout_threads, message_threads, receiver, besideRespawn>>

\* one turn of the loop of StandardIO._listen_stdout in thread r: the read it
\* waits in returns, the buffer is put on the queue, and the next turn reads
\* the stdout of self.server_process as it is then
StandardIO_listen_stdout(r) ==
    LET p == stdout_threads[r].reads IN
    /\ stdout_threads[r].pc = "read"
    /\ \/ /\ children[p].stdout > 0
          /\ children' = [children EXCEPT ![p].stdout = @ - 1]
          /\ receiver' = Append(receiver, [process |-> p, buf |-> "bytes"])
          /\ stdout_threads' = [stdout_threads EXCEPT ![r].reads = current_process]
       \/ /\ children[p].stdout = 0
          /\ ~children[p].alive
          /\ receiver' = Append(receiver, [process |-> p, buf |-> EmptyBuffer])
          /\ stdout_threads' = [stdout_threads EXCEPT ![r].pc = "returned"]
          /\ UNCHANGED children
    /\ UNCHANGED <<message_threads, besideRespawn>>

\* LSPClient._listen_message in thread l takes the next buffer from the queue
\* and returns when it is empty
LSPClient_listen_message_get(l) ==
    /\ message_threads[l].pc = "get"
    /\ receiver # <<>>
    /\ receiver' = Tail(receiver)
    /\ message_threads' =
           [message_threads EXCEPT
               ![l] = [pc |-> IF Head(receiver).buf = EmptyBuffer
                              THEN "returned" ELSE "dispatch",
                       message |-> Some(Head(receiver))]]
    /\ UNCHANGED <<children, stdout_threads, besideRespawn>>

\* LSPClient._listen_message in thread l has put the buffer into its Stream
\* and dispatched the message, and turns to the queue again
LSPClient_listen_message_dispatched(l) ==
    /\ message_threads[l].pc = "dispatch"
    /\ message_threads' = [message_threads EXCEPT ![l].pc = "get"]
    /\ UNCHANGED <<children, stdout_threads, receiver, besideRespawn>>

NextRespawn ==
    \/ LSPClient_run_server
    \/ \E p \in DOMAIN children : ChildWrite(p)
    \/ \E p \in DOMAIN children : ChildExit(p)
    \/ \E r \in DOMAIN stdout_threads : StandardIO_listen_stdout(r)
    \/ \E l \in DOMAIN message_threads : LSPClient_listen_message_get(l)
    \/ \E l \in DOMAIN message_threads : LSPClient_listen_message_dispatched(l)

SpecRespawn == InitLSP /\ [][NextRespawn]_vars

\* ------------------------------------------------------ claims C31 to C39

\* C35: a send_request call that raises ServerOffline leaves request_map exactly
\* as it was before the call: the request that was not sent is not pending and
\* no entry that was pending has been removed.
C35_FailedSendLeavesRegistry ==
    [][ (SendRequest /\ called'.raised = "ServerOffline")
            => request_map' = request_map ]_vars


\* the step makes a run_server attempt
Attempt == attempts'.count = attempts.count + 1

\* C33: once a failed restart attempt has scheduled next_check, no further
\* run_server attempt is made before the clock reaches that next_check, for
\* any number of consecutive failed attempts.
C33_NoAttemptBeforeNextCheck ==
    [][ (Attempt /\ attempts.not_before # Nothing)
            => now >= attempts.not_before[1] ]_vars

\* C34: the delay scheduled before the next attempt doubles with each
\* consecutive failed attempt up to a cap (it never more than doubles and
\* never shrinks), and is the initial delay again after a success.
C34_DelayDoubles ==
    [][ Attempt
            => IF attempts.failures = 0
               THEN attempts'.delay = cancel_delay(CancelRunServer_reset)
               ELSE /\ attempts'.delay <= 2 * attempts.delay
                    /\ attempts'.delay >= attempts.delay ]_vars


\* the handler of the last inbound message raised
HandlerRaised == handled # <<>> /\ handled[1].outcome = "raise"

\* the listener has left the loop of _listen, or is on its way out through
\* terminate_server
LoopEnds == control'["listener"].pc \in {"terminate", "reset", "returned"}

C36_TerminateReturns ==
    \A t, u \in ClientThreads :
        ~ ( /\ control[t].pc = "reset"
            /\ request_map_lock = Some(u)
            /\ control[u].pc = "write"
            /\ ~run_event )

\* C37: a handler called by handle_response may call send_request: the listener
\* never waits for _request_map_lock while it holds that lock itself.
C37_HandlerMaySendRequest ==
    ~ (control["listener"].pc = "acquire" /\ request_map_lock = Some("listener"))

\* the ids of the pending requests of method in the Client
ClientPending(method) ==
    {i \in DOMAIN registry.request_map : registry.request_map[i] = method}

\* C39: between the calls (the lock is free), the highest pending id of each
\* method is not in _canceled_requests, and every id in _canceled_requests is a
\* key of _request_map.
C39_CanceledConsistent ==
    request_map_lock = Nothing
        => /\ \A method \in Methods : \A i \in ClientPending(method) :
                 (\A j \in ClientPending(method) : j <= i)
                     => i \notin registry.canceled_requests
           /\ registry.canceled_requests \subseteq DOMAIN registry.request_map

\* C31: the inbound messages of one LSPClient are dispatched one at a time:
\* at no time do two of its _listen_message threads dispatch a message, also
\* after run_server has been called more than once
C31_OneDispatchAtATime ==
    Cardinality({l \in DOMAIN message_threads :
                    message_threads[l].pc = "dispatch"}) <= 1

\* C38: the listen loop started for a child takes neither bytes nor the
\* end-of-stream marker of a child before it from the queue, and it has not
\* returned while the stdout of its child is open
C38_NewLoopServesNewProcess ==
    \A l \in DOMAIN message_threads :
        /\ message_threads[l].message # Nothing =>
               message_threads[l].message[1].process >= l
        /\ message_threads[l].pc = "returned" => ~children[l].alive

====
